---- MODULE Spec2Model ----
(***************************************************************************)
(* DUCKTAPE uptime monitor: the per-project scheduler (scheduler.js), the  *)
(* status tracker and project registry (db.js) and the command handlers    *)
(* that change what the scheduler reads (commands.js, index.js).           *)
(*                                                                         *)
(* Time is abstracted: a live interval timer may fire at any moment, a     *)
(* pending fetch or alert delivery may settle at any moment.  SQL NULL and *)
(* JavaScript null are the integer 0 (Null); SQLite booleans are 1 / 0.    *)
(* Timestamps are abstracted to per-project version counters.              *)
(***************************************************************************)
EXTENDS Integers, Sequences, FiniteSets, Bags, TLC

\* ------------------------------------------------------------------ bounds
MaxProjects == 2   \* projects ever created (Spec)
MaxChecks   == 2   \* checks ever begun, all projects together (Spec)
MaxInFlight == 2   \* checkProject invocations pending at once
MaxRun      == 5   \* checks ever begun (SpecPolicy, SpecProbe)
MaxStarts   == 3   \* checks ever begun (SpecTimers)

MaxScans == 3      \* vulnerability scans begun in one run
MaxBatches == 2    \* vulnerability scan batches begun in one run
MaxRecords == 2    \* check records handed to an aggregator
MaxSlotChecks == 5 \* check records falling into one bucket
NumSlots == 3      \* buckets of a window
SlotWidth == 2     \* width of a bucket, in clock units

\* ------------------------------------------------------- program constants
Null == 0
HTTP_OK == 200
ESCALATION_WINDOW_SEC == 1800
MIN_CHECK_INTERVAL == 10
FETCH_TIMEOUT_SEC == 10
MIN_FAILURE_THRESHOLD == 1

EIGHT_AM == 480           \* 08:00 as a minute of the day
DAY == 1440               \* 24 hours, in minutes
DAILY_STAGGER_MS == 30000 \* sleep between two projects of the daily batch
GUILD_DELAY_MS == 5000    \* sleep between two projects of a guild batch

\* ------------------------------------------------------------ input sets
AddChannels  == {1}
HereChannels == {2}
Thresholds  == {1, 2}
Intervals   == {900, 2000}
Configs     == {<<1, 10>>, <<2, 2000>>}  \* <<threshold, interval>> (Spec)
StatusCodes == {200, 204, 500}
Deliveries  == {"notReady", "noChannel", "sendFailed", "sent"}

VARIABLES
  client,         \* scheduler.js `client`: Null until initializeScheduler
  projects,       \* table projects, indexed by the autoincrement id
  project_status, \* table project_status, one row per project id
  uptime_checks,  \* table uptime_checks, per project in insertion order
  timers,         \* scheduler.js `timers`: Map project id -> interval handle
  intervals,      \* the runtime's live setInterval timers (handle, closure)
  inflight,       \* bag of checkProject invocations that have not returned
  alerts,         \* per project: the sendAlert calls made so far
  statusChange,   \* per project: the last value updateProjectStatus returned
  lastFetch,      \* per project: what its last settled fetch settled with
  vulnerabilities, \* table of VulnerabilityRecords (CVE store)
  ignored_cves,   \* table of IgnoreEntries
  scans,          \* bag of checkProjectVulnerabilities calls not returned
  scanLog,        \* the scans that reached their diff or failed, in order
  batches,        \* the batches started so far, running or done, in order
  dailyTimer,     \* the timer handle kept by the vulnerability scheduler
  now,            \* the clock, in minutes
  uptimeData,     \* the check records handed to the aggregators
  timeline,       \* what bucketUptimeInto15MinIntervals last computed
  graph           \* what generateStatusImage last computed

vulnVars == <<vulnerabilities, ignored_cves, scans, scanLog, batches,
              dailyTimer, now>>

batchVars == <<batches, dailyTimer, now>>

aggVars == <<uptimeData, timeline, graph>>

uptimeVars == <<client, projects, project_status, uptime_checks, timers,
                intervals, inflight, alerts, statusChange, lastFetch>>

vars == <<client, projects, project_status, uptime_checks, timers, intervals,
          inflight, alerts, statusChange, lastFetch, vulnVars, aggVars>>

\* ------------------------------------------------------------- db.js rows
createProject(id, channelId, failureThreshold, checkIntervalSec) ==
  [id |-> id, channel_id |-> channelId, alert_channel_id |-> Null,
   failure_threshold |-> failureThreshold,
   check_interval_sec |-> checkIntervalSec, is_active |-> 1]

InitialStatus ==
  [is_up |-> 1, consecutive_failures |-> 0, last_status_code |-> Null,
   last_checked_at |-> 0, last_alert_sent_at |-> Null]

getAllActiveProjects ==
  SelectSeq(projects, LAMBDA row : row.is_active = 1)

getProjectsByGuild == getAllActiveProjects

deleteProject(table, projectId) ==
  [table EXCEPT ![projectId].is_active = 0]

setAlertChannel(table, projectId, alertChannelId) ==
  [table EXCEPT ![projectId].alert_channel_id = alertChannelId]

\* (mutant) a success leaves the failure count as it is
updateProjectStatus_NoReset(currentStatus, isUp, statusCode) ==
  LET consecutiveFailures ==
        IF isUp THEN currentStatus.consecutive_failures
                ELSE currentStatus.consecutive_failures + 1
  IN [row |-> [currentStatus EXCEPT
                 !.is_up = IF isUp THEN 1 ELSE 0,
                 !.consecutive_failures = consecutiveFailures,
                 !.last_status_code = statusCode,
                 !.last_checked_at = @ + 1],
      ret |-> [wasUp |-> currentStatus.is_up = 1,
               isNowUp |-> isUp,
               consecutiveFailures |-> consecutiveFailures]]

\* (mutant) the failure count is computed from a count of zero, as a read
\* made before the other checks of the project wrote would give
updateProjectStatus_StaleCount(currentStatus, isUp, statusCode) ==
  LET consecutiveFailures == IF isUp THEN 0 ELSE 1
  IN [row |-> [currentStatus EXCEPT
                 !.is_up = IF isUp THEN 1 ELSE 0,
                 !.consecutive_failures = consecutiveFailures,
                 !.last_status_code = statusCode,
                 !.last_checked_at = @ + 1],
      ret |-> [wasUp |-> currentStatus.is_up = 1,
               isNowUp |-> isUp,
               consecutiveFailures |-> consecutiveFailures]]

\* (mutant) wasUp is taken from the row after the write
updateProjectStatus_WasUpAfterWrite(currentStatus, isUp, statusCode) ==
  LET consecutiveFailures ==
        IF isUp THEN 0 ELSE currentStatus.consecutive_failures + 1
  IN [row |-> [currentStatus EXCEPT
                 !.is_up = IF isUp THEN 1 ELSE 0,
                 !.consecutive_failures = consecutiveFailures,
                 !.last_status_code = statusCode,
                 !.last_checked_at = @ + 1],
      ret |-> [wasUp |-> isUp,
               isNowUp |-> isUp,
               consecutiveFailures |-> consecutiveFailures]]

\* (mutant) the first failure of a run leaves the flag up
updateProjectStatus_DownFromSecond(currentStatus, isUp, statusCode) ==
  LET consecutiveFailures ==
        IF isUp THEN 0 ELSE currentStatus.consecutive_failures + 1
  IN [row |-> [currentStatus EXCEPT
                 !.is_up = IF isUp \/ consecutiveFailures = 1 THEN 1 ELSE 0,
                 !.consecutive_failures = consecutiveFailures,
                 !.last_status_code = statusCode,
                 !.last_checked_at = @ + 1],
      ret |-> [wasUp |-> currentStatus.is_up = 1,
               isNowUp |-> isUp,
               consecutiveFailures |-> consecutiveFailures]]

\* updateProjectStatus: the new row and the returned statusChange
updateProjectStatus(currentStatus, isUp, statusCode) ==
  LET consecutiveFailures ==
        IF isUp THEN 0 ELSE currentStatus.consecutive_failures + 1
  IN [row |-> [currentStatus EXCEPT
                 !.is_up = IF isUp THEN 1 ELSE 0,
                 !.consecutive_failures = consecutiveFailures,
                 !.last_status_code = statusCode,
                 !.last_checked_at = @ + 1],
      ret |-> [wasUp |-> currentStatus.is_up = 1,
               isNowUp |-> isUp,
               consecutiveFailures |-> consecutiveFailures]]

\* (mutant) a probe without an answer is not logged
logUptime_OnlyAnswered(log, isUp, statusCode) ==
  IF statusCode = Null THEN log
  ELSE Append(log, [is_up |-> IF isUp THEN 1 ELSE 0,
                    status_code |-> statusCode])

logUptime(log, isUp, statusCode) ==
  Append(log, [is_up |-> IF isUp THEN 1 ELSE 0, status_code |-> statusCode])

recordAlertSent(row) ==
  [row EXCEPT !.last_alert_sent_at = @ + 1]

\* ----------------------------------------------------------- scheduler.js
\* The probe of checkProject, lines 79-109: what the fetch settled with
\* decides isUp and statusCode (response body and response time are not
\* modelled: no decision reads them).
\* "response": fetch resolved with an HTTP status; "error": fetch rejected
\* (DNS, connection refused); "timeout": the 10 s abort rejected it.
Responses ==
  [kind : {"response"}, status : StatusCodes]
    \cup [kind : {"error", "timeout"}, status : {Null}]

\* one answer that is up and one failure in transport
SpecResponses ==
  {r \in Responses : r.kind = "error" \/ r.status = HTTP_OK}

\* (mutant) every 2xx answer counts as up
Probe_Any2xx(resp) ==
  IF resp.kind = "response"
    THEN [isUp |-> resp.status \div 100 = 2, statusCode |-> resp.status]
    ELSE [isUp |-> FALSE, statusCode |-> Null]

Probe(resp) ==
  IF resp.kind = "response"
    THEN [isUp |-> resp.status = HTTP_OK, statusCode |-> resp.status]
    ELSE [isUp |-> FALSE, statusCode |-> Null]

\* checkProject lines 125-127
secondFailureThreshold(project) ==
  LET checksPer30Min == ESCALATION_WINDOW_SEC \div project.check_interval_sec
  IN IF checksPer30Min > 0
       THEN project.failure_threshold + checksPer30Min ELSE Null

\* (mutant) every earlier failure counts as an outage
hadReachedFailureThreshold_AnyFailure(project, previousStatus) ==
  previousStatus.consecutive_failures >= 1

\* checkProject lines 129-132
hadReachedFailureThreshold(project, previousStatus) ==
  previousStatus.consecutive_failures >= project.failure_threshold

\* (mutant) the thresholds are tested with >= instead of ===
AlertPolicy_AtLeast(project, isUp, change, previousStatus) ==
  IF /\ ~isUp
     /\ change.consecutiveFailures >= project.failure_threshold
    THEN "DOWN"
    ELSE IF isUp /\ ~change.wasUp
              /\ previousStatus.consecutive_failures
                   >= project.failure_threshold
      THEN "RECOVERED"
      ELSE "NONE"

\* (mutant) the recovery branch tests wasUp instead of !wasUp
AlertPolicy_WasUp(project, isUp, change, previousStatus) ==
  IF /\ ~isUp
     /\ \/ change.consecutiveFailures = project.failure_threshold
        \/ /\ 1800 \div project.check_interval_sec > 0
           /\ change.consecutiveFailures = project.failure_threshold
                + 1800 \div project.check_interval_sec
    THEN "DOWN"
    ELSE IF isUp /\ change.wasUp
              /\ previousStatus.consecutive_failures
                   >= project.failure_threshold
      THEN "RECOVERED"
      ELSE "NONE"

\* checkProject lines 135-149: which sendAlert call, if any, is made
AlertPolicy(project, isUp, change, previousStatus) ==
  IF /\ ~isUp
     /\ \/ change.consecutiveFailures = project.failure_threshold
        \/ /\ secondFailureThreshold(project) # Null
           /\ change.consecutiveFailures = secondFailureThreshold(project)
    THEN "DOWN"
    ELSE IF isUp /\ ~change.wasUp
              /\ hadReachedFailureThreshold(project, previousStatus)
      THEN "RECOVERED"
      ELSE "NONE"

\* sendAlert line 159
alertChannelOf(project) ==
  IF project.alert_channel_id # Null
    THEN project.alert_channel_id ELSE project.channel_id

\* The fields of a project row that scheduler.js reads from the object it
\* was handed (id, channels, threshold, interval)
ProjectObject(row) ==
  [id |-> row.id, channel_id |-> row.channel_id,
   alert_channel_id |-> row.alert_channel_id,
   failure_threshold |-> row.failure_threshold,
   check_interval_sec |-> row.check_interval_sec]

\* One invocation of checkProject(project), suspended at its fetch.  The
\* closure's project is the row object read when the timer was armed;
\* registryChannel remembers what the registry said when the check began.
NewCheck(project, registryRow) ==
  [project |-> project, pc |-> "fetch", alert |-> 0,
   registryChannel |-> alertChannelOf(registryRow)]

ChecksOf(bag, projectId) ==
  LET mine == {c \in BagToSet(bag) : c.project.id = projectId}
  IN BagCardinality([c \in mine |-> bag[c]])

Fetching(bag, projectId) ==
  LET mine == {c \in BagToSet(bag) :
                 c.project.id = projectId /\ c.pc = "fetch"}
  IN BagCardinality([c \in mine |-> bag[c]])

RECURSIVE SumLen(_, _)
SumLen(table, n) ==
  IF n = 0 THEN 0 ELSE Len(table[n]) + SumLen(table, n - 1)

\* checks recorded or begun so far
TotalChecks ==
  SumLen(uptime_checks, Len(uptime_checks))
    + BagCardinality([c \in {d \in BagToSet(inflight) : d.pc = "fetch"}
                        |-> inflight[c]])

\* the model's bounds allow n more checks to begin
CanStart(n, budget) ==
  /\ BagCardinality(inflight) + n <= MaxInFlight
  /\ TotalChecks + n <= budget

\* setInterval returns a new Timeout object: a handle that no live timer
\* has and no entry of the Map holds (the name of a cancelled timer that
\* nothing refers to any more may be used again)
FreshHandle(st) ==
  LET used == {i.handle : i \in st.intervals}
                \cup {st.timers[k] : k \in DOMAIN st.timers}
  IN CHOOSE h \in 1..(Cardinality(used) + 1) :
       h \notin used /\ \A g \in 1..(h - 1) : g \in used

clearInterval(live, handle) == {i \in live : i.handle # handle}

\* (mutant) the existing timer of the project is not cleared
scheduleProjectCheck_NoClear(st, project) ==
  LET intervalId == FreshHandle(st)
  IN [timers |-> [k \in DOMAIN st.timers \cup {project.id} |->
                    IF k = project.id THEN intervalId ELSE st.timers[k]],
      intervals |-> st.intervals \cup
                      {[handle |-> intervalId, project |-> project]},
      inflight |-> st.inflight (+) SetToBag({NewCheck(project, project)})]

\* scheduleProjectCheck, lines 32-51, on the scheduler state
\* st = [timers, intervals, inflight]
scheduleProjectCheck(st, project) ==
  LET cleared == IF project.id \in DOMAIN st.timers
                   THEN clearInterval(st.intervals, st.timers[project.id])
                   ELSE st.intervals
      started == st.inflight (+) SetToBag({NewCheck(project, project)})
      intervalId == FreshHandle([st EXCEPT !.intervals = cleared])
  IN [timers |-> [k \in DOMAIN st.timers \cup {project.id} |->
                    IF k = project.id THEN intervalId ELSE st.timers[k]],
      intervals |-> cleared \cup
                      {[handle |-> intervalId, project |-> project]},
      inflight |-> started]

RECURSIVE ScheduleEach(_, _)
ScheduleEach(st, rows) ==
  IF rows = <<>> THEN st
  ELSE ScheduleEach(scheduleProjectCheck(st, ProjectObject(Head(rows))),
                    Tail(rows))

SchedulerState ==
  [timers |-> timers, intervals |-> intervals, inflight |-> inflight]

SetScheduler(st) ==
  /\ timers' = st.timers
  /\ intervals' = st.intervals
  /\ inflight' = st.inflight

NoFetch == [kind |-> "none", status |-> Null]

\* ------------------------------------------ statusGraph.js, aiHandler.js
\* the window the aggregators are asked about: NumSlots buckets of SlotWidth
\* clock units, ending at the time of the call
WindowStart == SlotWidth

WindowEnd == WindowStart + NumSlots * SlotWidth

\* timestamps of check records: inside the window and just outside it
CheckTimes == (WindowStart - 1)..(WindowEnd + 1)

\* the record is skipped by the first test of the loop
Skipped(check, startTime, endTime) ==
  check.checked_at < startTime \/ check.checked_at > endTime

slotIndex_Ceiling(check, startTime, msPerSlot) ==
  (check.checked_at - startTime + msPerSlot - 1) \div msPerSlot

\* Math.floor((checkTime - startTime) / msPerSlot)
slotIndex(check, startTime, msPerSlot) ==
  (check.checked_at - startTime) \div msPerSlot

\* buckets[slot - 1] after the loop: buckets are numbered from 1 here
bucketUptimeData(data, startTime, endTime, numSlots, msPerSlot) ==
  [slot \in 1..numSlots |->
     LET hits == {k \in DOMAIN data :
                    /\ ~Skipped(data[k], startTime, endTime)
                    /\ slotIndex(data[k], startTime, msPerSlot) >= 0
                    /\ slotIndex(data[k], startTime, msPerSlot) < numSlots
                    /\ slotIndex(data[k], startTime, msPerSlot) = slot - 1}
     IN  [checks |-> Cardinality(hits),
          upCount |-> Cardinality({k \in hits : data[k].is_up # 0})]]

\* the state string of a bucket of the 15-minute timeline; ratio >= 0.5 is
\* 2 * upCount >= checks
BucketState(bucket) ==
  IF bucket.checks = 0 THEN "NO_DATA"
  ELSE IF bucket.upCount >= bucket.checks THEN "UP"
  ELSE IF 2 * bucket.upCount >= bucket.checks THEN "PARTIAL"
  ELSE "DOWN"

getSlotColor_FourWay(bucket) ==
  IF bucket.checks = 0 THEN "noData"
  ELSE IF bucket.upCount >= bucket.checks THEN "upBright"
  ELSE IF 2 * bucket.upCount >= bucket.checks THEN "partial"
  ELSE "downBright"

\* ratio >= 0.8 is 5 * upCount >= 4 * checks
getSlotColor(bucket) ==
  IF bucket.checks = 0 THEN "noData"
  ELSE IF bucket.upCount >= bucket.checks THEN "upBright"
  ELSE IF 5 * bucket.upCount >= 4 * bucket.checks THEN "up"
  ELSE IF 2 * bucket.upCount >= bucket.checks THEN "partial"
  ELSE IF bucket.upCount > 0 THEN "down"
  ELSE "downBright"

\* the buckets and the returned states of bucketUptimeInto15MinIntervals
bucketUptimeInto15MinIntervals(uptimeChecks, numBuckets, msPerBucket, at) ==
  LET startTime == at - numBuckets * msPerBucket
      buckets == bucketUptimeData(uptimeChecks, startTime, at, numBuckets,
                                  msPerBucket)
  IN  [k \in 1..numBuckets |->
         [checks |-> buckets[k].checks, upCount |-> buckets[k].upCount,
          state |-> BucketState(buckets[k])]]

\* no aggregation asked for yet
InitAggVars ==
  /\ uptimeData = <<>>
  /\ timeline = <<>>
  /\ graph = <<>>

\* dailyTimer before startVulnScheduler and after stopVulnScheduler: null
NoTimer == [kind |-> "none", due |-> Null]

\* the CVE store and the ignore list are empty, no scan is running
InitVulnVars ==
  /\ vulnerabilities = {}
  /\ ignored_cves = {}
  /\ scans = EmptyBag
  /\ scanLog = <<>>
  /\ batches = <<>>
  /\ InitAggVars
  /\ dailyTimer = NoTimer
  /\ now \in {0}

\* ------------------------------------------------- CVE store (db.js)
\* A row of the vulnerability table: one finding of one project.  first_seen
\* is the number of the scan that inserted it, resolved is 1 once a scan
\* no longer reported the CVE.
getActiveCVEsForProject(table, projectId) ==
  {r \in table : r.project_id = projectId /\ r.resolved = 0}

getIgnoredCVEsForProject(table, projectId) ==
  {e.cve_id : e \in {i \in table : i.project_id = projectId}}

\* LOW < MEDIUM < HIGH < CRITICAL
SeverityRank(severity) ==
  CASE severity = "CRITICAL" -> 4
    [] severity = "HIGH" -> 3
    [] severity = "MEDIUM" -> 2
    [] severity = "LOW" -> 1
    [] OTHER -> 0

\* the finding of a CVE id that a list sorted by score has first
FirstListed(vulns, id) ==
  CHOOSE v \in vulns :
    /\ v.cve = id
    /\ \A w \in vulns :
         w.cve = id => SeverityRank(w.severity) <= SeverityRank(v.severity)

\* (mutant) one row per finding handed in
saveCVEs_InsertsEach(table, projectId, vulns, stamp) ==
  table \cup {[project_id |-> projectId, cve_id |-> v.cve,
               severity |-> v.severity, first_seen |-> stamp,
               resolved |-> 0] : v \in vulns}

\* one record per (project, CVE id) pair: findings that share a CVE id
\* make one row
saveCVEs(table, projectId, vulns, stamp) ==
  table \cup {[project_id |-> projectId, cve_id |-> id,
               severity |-> FirstListed(vulns, id).severity,
               first_seen |-> stamp, resolved |-> 0] :
                 id \in {v.cve : v \in vulns}}

markCVEsResolved(table, projectId, cveIds) ==
  {IF r.project_id = projectId /\ r.resolved = 0 /\ r.cve_id \in cveIds
     THEN [r EXCEPT !.resolved = 1]
     ELSE r : r \in table}

ignoreCVEs(table, projectId, cveIds) ==
  table \cup {[project_id |-> projectId, cve_id |-> id] : id \in cveIds}

\* ------------------------------------------------------- vulnScheduler.js
Severities == {"CRITICAL", "HIGH", "MEDIUM", "LOW", "UNKNOWN"}

\* what scanUrl can find at a target: one finding per CVE
VulnFindings ==
  {[cve |-> 1, severity |-> "HIGH", technology |-> 1],
   [cve |-> 2, severity |-> "CRITICAL", technology |-> 1],
   [cve |-> 3, severity |-> "MEDIUM", technology |-> 2]}

ScanResults == SUBSET VulnFindings

\* the selections of the ignore menu: it lists HIGH and CRITICAL findings
IgnoreChoices == {{v.cve} : v \in {f \in VulnFindings :
                                     f.severity \in {"HIGH", "CRITICAL"}}}

\* one scan over a store that earlier scans filled: every severity, and a
\* severity that may differ between the stored record and the new finding
DiffCVEs == {1, 2}

SeverityFindings ==
  {[cve |-> id, severity |-> sev, technology |-> 1] :
     id \in DiffCVEs, sev \in Severities}

OneEach(findings) ==
  {S \in SUBSET findings : \A a, b \in S : a.cve = b.cve => a = b}

\* the technologies a fingerprint can detect
Technologies == {v.technology : v \in VulnFindings}

\* checkTechnology(tech): the findings the vulnerability databases hold for
\* the technology, or nothing when every query it tries fails: the catch
\* blocks swallow the error and the empty result list is returned
checkTechnology(tech, site, failed) ==
  IF tech \in failed THEN {} ELSE {v \in site : v.technology = tech}

\* scanUrl after a successful fingerprint: the findings of every technology
scanUrl(site, failed) ==
  UNION {checkTechnology(tech, site, failed) : tech \in Technologies}

currentCVEIds(currentVulns) == {v.cve : v \in currentVulns}

storedCVEIds(storedCVEs) == {v.cve_id : v \in storedCVEs}

\* (mutant) every reported finding is new, whatever the store holds
newVulns_AllReported(currentVulns, storedCVEs, ignoredCVEIds) ==
  currentVulns

newVulns_SkipsIgnored(currentVulns, storedCVEs, ignoredCVEIds) ==
  {v \in currentVulns :
     v.cve \notin storedCVEIds(storedCVEs) /\ v.cve \notin ignoredCVEIds}

\* ignoredCVEIds is not consulted: every unknown finding is new
newVulns(currentVulns, storedCVEs, ignoredCVEIds) ==
  {v \in currentVulns : v.cve \notin storedCVEIds(storedCVEs)}

resolvedCVEIds_HighPlusOnly(currentVulns, storedCVEs) ==
  {v.cve_id : v \in {s \in storedCVEs :
                       /\ s.cve_id \notin currentCVEIds(currentVulns)
                       /\ s.severity \in {"HIGH", "CRITICAL"}}}

resolvedCVEIds(currentVulns, storedCVEs) ==
  {v.cve_id : v \in {s \in storedCVEs :
                       s.cve_id \notin currentCVEIds(currentVulns)}}

resolvedHighPlus_CriticalOnly(currentVulns, storedCVEs) ==
  {v \in storedCVEs : /\ v.cve_id \notin currentCVEIds(currentVulns)
                      /\ v.severity = "CRITICAL"}

resolvedHighPlus_AllStored(currentVulns, storedCVEs) ==
  {v \in storedCVEs : v.severity \in {"HIGH", "CRITICAL"}}

resolvedHighPlus(currentVulns, storedCVEs) ==
  {v \in storedCVEs : /\ v.cve_id \notin currentCVEIds(currentVulns)
                      /\ v.severity \in {"HIGH", "CRITICAL"}}

newHighVulns_AllCurrent(currentVulns, new, ignoredCVEIds) ==
  {v \in currentVulns : v.severity = "HIGH" /\ v.cve \notin ignoredCVEIds}

\* currentVulns is not consulted: only new findings count
newHighVulns(currentVulns, new, ignoredCVEIds) ==
  {v \in new : v.severity = "HIGH" /\ v.cve \notin ignoredCVEIds}

newCriticalVulns(new, ignoredCVEIds) ==
  {v \in new : v.severity = "CRITICAL" /\ v.cve \notin ignoredCVEIds}

allCurrentCritical(currentVulns, ignoredCVEIds) ==
  {v \in currentVulns : v.severity = "CRITICAL" /\ v.cve \notin ignoredCVEIds}

shouldAlert_NewCriticalOnly(newHigh, newCritical, allCritical, resolved) ==
  newHigh # {} \/ newCritical # {} \/ resolved # {}

\* newCritical is reported in the alert but does not decide it
shouldAlert(newHigh, newCritical, allCritical, resolved) ==
  newHigh # {} \/ allCritical # {} \/ resolved # {}

\* entry is the place in scanLog of the diff of the scan, once it has one
NewScan(row) ==
  [project |-> ProjectObject(row), pc |-> "scanUrl", batch |-> Null,
   entry |-> 0]

\* the call of checkProjectVulnerabilities made by batch b for the project
BatchScan(project, b) ==
  [project |-> project, pc |-> "scanUrl", batch |-> b, entry |-> 0]

\* (mutant) every batch sleeps as long as the daily one
sleepMs_AlwaysDaily(kind) == DAILY_STAGGER_MS

\* the argument of the sleep between two projects of a batch
sleepMs(kind) ==
  IF kind = "daily" THEN DAILY_STAGGER_MS ELSE GUILD_DELAY_MS

Resume_AbortsOnFailure(bs, c, result) ==
  IF c.batch = Null
    THEN bs
    ELSE LET b == bs[c.batch]
         IN  [bs EXCEPT ![c.batch] =
                [b EXCEPT !.pc = IF b.i < Len(b.list) /\ result # "null"
                                   THEN "sleep"
                                   ELSE "done",
                          !.results = Append(b.results, result),
                          !.slept = IF b.i < Len(b.list) /\ result # "null"
                                      THEN Append(b.slept, sleepMs(b.kind))
                                      ELSE b.slept]]

\* checkProjectVulnerabilities of scan c returns result to its caller: a
\* batch goes on to sleep, or ends after its last project
Resume(bs, c, result) ==
  IF c.batch = Null
    THEN bs
    ELSE LET b == bs[c.batch]
         IN  [bs EXCEPT ![c.batch] =
                [b EXCEPT !.pc = IF b.i < Len(b.list) THEN "sleep"
                                                      ELSE "done",
                          !.results = Append(b.results, result),
                          !.slept = IF b.i < Len(b.list)
                                      THEN Append(b.slept, sleepMs(b.kind))
                                      ELSE b.slept]]

\* what checkProjectVulnerabilities returns after a diff (lines 265-274);
\* highPlus is the number of HIGH and CRITICAL findings of the scan that
\* are not ignored
ScanReturn(entry) ==
  [null |-> FALSE,
   alertSent |-> entry.alertSent,
   criticalCount |-> Cardinality(entry.allCritical),
   highCount |-> Cardinality(entry.newHigh),
   highPlus |-> Cardinality({v \in entry.current :
                               /\ v.severity \in {"HIGH", "CRITICAL"}
                               /\ v.cve \notin entry.ignored})]

\* checkProjectVulnerabilities returns null: scanUrl threw
NullReturn ==
  [null |-> TRUE, alertSent |-> FALSE, criticalCount |-> 0, highCount |-> 0,
   highPlus |-> 0]

\* the completion message of scanGuildProjectsNow (lines 150-174), decided
\* on the sums that include the return value ret of the last scan
completionMessage(b, ret) ==
  IF b.kind # "guild" \/ b.pc # "done" THEN b
  ELSE LET sent == b.alertsSent + (IF ret.alertSent THEN 1 ELSE 0)
           critical == b.totalCritical + ret.criticalCount
           high == b.totalHigh + ret.highCount
       IN  [b EXCEPT !.message =
              IF sent = 0 /\ critical = 0 /\ high = 0
                THEN "allClear" ELSE "summary"]

\* scanGuildProjectsNow adds the return value of a scan to its sums (lines
\* 134-138) and, after the last project, posts its completion message
Tally(bs, c, ret) ==
  IF c.batch = Null \/ bs[c.batch].kind # "guild"
    THEN bs
    ELSE LET b == completionMessage(bs[c.batch], ret)
         IN  [bs EXCEPT ![c.batch] =
                [b EXCEPT
                   !.alertsSent = @ + (IF ret.alertSent THEN 1 ELSE 0),
                   !.totalCritical = @ + ret.criticalCount,
                   !.totalHigh = @ + ret.highCount,
                   !.highPlus = @ + ret.highPlus]]

ScansOf(bag, projectId) ==
  LET cs == {c \in BagToSet(bag) : c.project.id = projectId}
  IN  BagCardinality([c \in cs |-> bag[c]])

CanScan ==
  /\ Len(scanLog) + BagCardinality(scans) < MaxScans
  /\ BagCardinality(scans) < MaxInFlight

\* the list a batch walks: the active projects when the batch starts
BatchList ==
  [k \in 1..Len(getAllActiveProjects) |->
     ProjectObject(getAllActiveProjects[k])]

NewBatch(kind, list, at) ==
  [kind |-> kind, list |-> list, startedAt |-> at,
   i |-> IF list = <<>> THEN 0 ELSE 1,
   pc |-> IF list = <<>> THEN "done" ELSE "check",
   attempted |-> IF list = <<>> THEN <<>> ELSE <<list[1].id>>,
   results |-> <<>>, slept |-> <<>>,
   alertsSent |-> 0, totalCritical |-> 0, totalHigh |-> 0, highPlus |-> 0,
   message |-> "none"]

\* the loop of runDailyVulnScan and scanGuildProjectsNow up to its first
\* await: the list is read and the first project's scan is started
StartBatch(kind, at) ==
  /\ Len(batches) < MaxBatches
  /\ batches' = Append(batches, NewBatch(kind, BatchList, at))
  /\ IF BatchList = <<>>
       THEN UNCHANGED scans
       ELSE /\ CanScan
            /\ scans' = scans (+)
                 SetToBag({BatchScan(BatchList[1], Len(batches) + 1)})

next8AM_Strict(t) ==
  LET today == (t \div DAY) * DAY + EIGHT_AM
  IN  IF t > today THEN today + DAY ELSE today

\* the next occurrence of 08:00 at or after time t, t itself excluded
next8AM(t) ==
  LET today == (t \div DAY) * DAY + EIGHT_AM
  IN  IF t >= today THEN today + DAY ELSE today

\* what the log keeps of a scan that reached its diff
ScanEntry(project, currentVulns, storedCVEs, ignoredCVEIds, table) ==
  LET new == newVulns(currentVulns, storedCVEs, ignoredCVEIds)
      newHigh == newHighVulns(currentVulns, new, ignoredCVEIds)
      newCritical == newCriticalVulns(new, ignoredCVEIds)
      allCritical == allCurrentCritical(currentVulns, ignoredCVEIds)
      resolved == resolvedHighPlus(currentVulns, storedCVEs)
  IN  [project |-> project.id, failed |-> FALSE,
       current |-> currentVulns, stored |-> storedCVEs,
       ignored |-> ignoredCVEIds,
       new |-> currentCVEIds(new),
       resolvedIds |-> resolvedCVEIds(currentVulns, storedCVEs),
       newHigh |-> newHigh, newCritical |-> newCritical,
       allCritical |-> allCritical, resolved |-> resolved,
       alertSent |-> shouldAlert(newHigh, newCritical, allCritical, resolved),
       table |-> table]

FailedEntry(project) ==
  [project |-> project.id, failed |-> TRUE, current |-> {}, stored |-> {},
   ignored |-> {}, new |-> {}, resolvedIds |-> {}, newHigh |-> {},
   newCritical |-> {}, allCritical |-> {}, resolved |-> {},
   alertSent |-> FALSE, table |-> vulnerabilities]

\* ------------------------------------------------------------------ Init
\* The process starts with whatever an earlier run left in monitor.db:
\* here up to MaxProjects projects as createProject leaves them.
RECURSIVE Registries(_)
Registries(n) ==
  IF n = 0 THEN {<<>>}
  ELSE {Append(table, createProject(n, channelId, cfg[1], cfg[2])) :
          table \in Registries(n - 1), channelId \in AddChannels,
          cfg \in Configs}

Init ==
  /\ client = Null
  /\ \E n \in 0..MaxProjects :
       /\ projects \in Registries(n)
       /\ project_status = [id \in 1..n |-> InitialStatus]
       /\ uptime_checks = [id \in 1..n |-> <<>>]
       /\ alerts = [id \in 1..n |-> <<>>]
       /\ statusChange = [id \in 1..n |-> Null]
       /\ lastFetch = [id \in 1..n |-> NoFetch]
  /\ timers = <<>>
  /\ intervals = {}
  /\ inflight = EmptyBag
  /\ InitVulnVars

\* --------------------------------------------------------------- actions
\* index.js ClientReady handler: initializeScheduler(c); startScheduler()
ClientReady ==
  /\ client = Null
  /\ client' = 1
  /\ SetScheduler(ScheduleEach(SchedulerState, getAllActiveProjects))
  /\ UNCHANGED <<projects, project_status, uptime_checks, alerts,
                 statusChange, lastFetch>>
  /\ UNCHANGED <<vulnVars, aggVars>>

\* (mutant) a restart resets the counters: every project's status row
\* is written back to its initial value
startScheduler_ResetsCounters ==
  /\ client # Null
  /\ SetScheduler(ScheduleEach(SchedulerState, getAllActiveProjects))
  /\ project_status' = [id \in DOMAIN project_status |-> InitialStatus]
  /\ UNCHANGED <<client, projects, uptime_checks, alerts,
                 statusChange, lastFetch>>
  /\ UNCHANGED <<vulnVars, aggVars>>

startScheduler ==
  /\ client # Null
  /\ SetScheduler(ScheduleEach(SchedulerState, getAllActiveProjects))
  /\ UNCHANGED <<client, projects, project_status, uptime_checks, alerts,
                 statusChange, lastFetch>>
  /\ UNCHANGED <<vulnVars, aggVars>>

addProject(projectId) ==
  /\ client # Null
  /\ projectId \in DOMAIN projects
  /\ SetScheduler(scheduleProjectCheck(SchedulerState,
                                    ProjectObject(projects[projectId])))
  /\ UNCHANGED <<client, projects, project_status, uptime_checks, alerts,
                 statusChange, lastFetch>>
  /\ UNCHANGED <<vulnVars, aggVars>>

\* (mutant) the Map is cleared, the timers it held are not
stopScheduler_ClearsMapOnly ==
  /\ client # Null
  /\ timers' = <<>>
  /\ UNCHANGED <<client, projects, project_status, uptime_checks, intervals,
                 inflight, alerts, statusChange, lastFetch>>
  /\ UNCHANGED <<vulnVars, aggVars>>

stopScheduler ==
  /\ client # Null
  /\ intervals' = {i \in intervals :
                     \A k \in DOMAIN timers : i.handle # timers[k]}
  /\ timers' = <<>>
  /\ UNCHANGED <<client, projects, project_status, uptime_checks, inflight,
                 alerts, statusChange, lastFetch>>
  /\ UNCHANGED <<vulnVars, aggVars>>

\* (mutant) checks are serialized across projects: a tick waits until no
\* check of any project is pending
Tick_Serialized(i) ==
  /\ i \in intervals
  /\ inflight = EmptyBag
  /\ inflight' = inflight (+)
       SetToBag({NewCheck(i.project, projects[i.project.id])})
  /\ UNCHANGED <<client, projects, project_status, uptime_checks, timers,
                 intervals, alerts, statusChange, lastFetch>>
  /\ UNCHANGED <<vulnVars, aggVars>>

\* The callback of a live interval timer, lines 44-48.  A fetch is aborted
\* FETCH_TIMEOUT_SEC after its check began (line 81) and every pending
\* check of the project began before this timer was armed or at its last
\* tick, so with a longer interval no fetch is still pending at a tick;
\* an alert delivery (sendAlert has no timeout) may be.
Tick(i) ==
  /\ i \in intervals
  /\ i.project.check_interval_sec > FETCH_TIMEOUT_SEC
       => Fetching(inflight, i.project.id) = 0
  /\ inflight' = inflight (+)
       SetToBag({NewCheck(i.project, projects[i.project.id])})
  /\ UNCHANGED <<client, projects, project_status, uptime_checks, timers,
                 intervals, alerts, statusChange, lastFetch>>
  /\ UNCHANGED <<vulnVars, aggVars>>

\* checkProject from the settling of its fetch to its next suspension:
\* lines 88-149 up to the await of sendAlert
FetchSettles(c, resp) ==
  /\ BagIn(c, inflight)
  /\ c.pc = "fetch"
  /\ LET id == c.project.id
         probe == Probe(resp)
         previousStatus == project_status[id]
         update == updateProjectStatus(project_status[id], probe.isUp,
                                       probe.statusCode)
         kind == AlertPolicy(c.project, probe.isUp, update.ret,
                             previousStatus)
         call == [status |-> kind,
                  consecutiveFailures |->
                    IF kind = "DOWN" THEN update.ret.consecutiveFailures
                                     ELSE 0,
                  channelId |-> alertChannelOf(c.project),
                  registryChannel |-> c.registryChannel,
                  check |-> Len(uptime_checks[id]) + 1]
     IN /\ uptime_checks' = [uptime_checks EXCEPT
                               ![id] = logUptime(@, probe.isUp,
                                                 probe.statusCode)]
        /\ project_status' = [project_status EXCEPT ![id] = update.row]
        /\ statusChange' = [statusChange EXCEPT ![id] = update.ret]
        /\ lastFetch' = [lastFetch EXCEPT ![id] = resp]
        /\ IF kind = "NONE"
             THEN /\ inflight' = inflight (-) SetToBag({c})
                  /\ UNCHANGED alerts
             ELSE /\ alerts' = [alerts EXCEPT ![id] = Append(@, call)]
                  /\ inflight' = (inflight (-) SetToBag({c})) (+)
                       SetToBag({[c EXCEPT !.pc = "sendAlert",
                                           !.alert = Len(alerts[id]) + 1]})
  /\ UNCHANGED <<client, projects, timers, intervals>>
  /\ UNCHANGED <<vulnVars, aggVars>>

\* (mutant) an alert that was not delivered is sent again
SendAlertSettles_RetriesOnFailure(c, delivery) ==
  /\ BagIn(c, inflight)
  /\ c.pc = "sendAlert"
  /\ delivery = "notReady" \/ client # Null
  /\ LET id == c.project.id
     IN IF delivery = "sent"
          THEN /\ project_status' =
                    [project_status EXCEPT ![id] = recordAlertSent(@)]
               /\ inflight' = inflight (-) SetToBag({c})
               /\ UNCHANGED alerts
          ELSE /\ alerts' = [alerts EXCEPT
                               ![id] = Append(@, alerts[id][c.alert])]
               /\ inflight' = (inflight (-) SetToBag({c})) (+)
                    SetToBag({[c EXCEPT !.alert = Len(alerts[id]) + 1]})
               /\ UNCHANGED project_status
  /\ UNCHANGED <<client, projects, uptime_checks, timers, intervals,
                 statusChange, lastFetch>>
  /\ UNCHANGED <<vulnVars, aggVars>>

\* (mutant) the alert time is recorded only when the message was posted
SendAlertSettles_OnlyWhenSent(c, delivery) ==
  /\ BagIn(c, inflight)
  /\ c.pc = "sendAlert"
  /\ delivery = "notReady" \/ client # Null
  /\ LET id == c.project.id
     IN project_status' = IF delivery = "sent"
                            THEN [project_status EXCEPT
                                    ![id] = recordAlertSent(@)]
                            ELSE project_status
  /\ inflight' = inflight (-) SetToBag({c})
  /\ UNCHANGED <<client, projects, uptime_checks, timers, intervals,
                 alerts, statusChange, lastFetch>>
  /\ UNCHANGED <<vulnVars, aggVars>>

\* sendAlert returns (lines 153-213) and checkProject records the alert
\* (lines 144, 148) and returns
SendAlertSettles(c, delivery) ==
  /\ BagIn(c, inflight)
  /\ c.pc = "sendAlert"
  /\ delivery = "notReady" \/ client # Null
  /\ LET id == c.project.id
     IN project_status' = [project_status EXCEPT ![id] = recordAlertSent(@)]
  /\ inflight' = inflight (-) SetToBag({c})
  /\ UNCHANGED <<client, projects, uptime_checks, timers, intervals,
                 alerts, statusChange, lastFetch>>
  /\ UNCHANGED <<vulnVars, aggVars>>

\* database statements of checkProject that may throw: one in the block
\* after the fetch (line 118, its record already logged), one after the
\* alert (lines 144, 148)
ThrowPoints == {"updateProjectStatus", "recordAlertSent"}

\* (mutant) a rejected check takes its project's timer down with it
CheckRejects_CancelsTimer(c, at) ==
  /\ BagIn(c, inflight)
  /\ c.project.id \in DOMAIN timers
  /\ inflight' = inflight (-) SetToBag({c})
  /\ intervals' = clearInterval(intervals, timers[c.project.id])
  /\ UNCHANGED <<client, projects, project_status, uptime_checks, timers,
                 alerts, statusChange, lastFetch>>
  /\ UNCHANGED <<vulnVars, aggVars>>

\* (mutant) the status row is written before the check is logged: a throw
\* in the block after the fetch leaves the status updated and no record
CheckRejects_StatusFirst(c, at) ==
  /\ BagIn(c, inflight)
  /\ inflight' = inflight (-) SetToBag({c})
  /\ \/ /\ at = "updateProjectStatus"
        /\ c.pc = "fetch"
        /\ \E resp \in SpecResponses :
             project_status' = [project_status EXCEPT ![c.project.id] =
               updateProjectStatus(@, Probe(resp).isUp,
                                   Probe(resp).statusCode).row]
        /\ UNCHANGED uptime_checks
     \/ /\ at = "recordAlertSent"
        /\ c.pc = "sendAlert"
        /\ UNCHANGED <<uptime_checks, project_status>>
  /\ UNCHANGED <<client, projects, timers, intervals, alerts, statusChange,
                 lastFetch>>
  /\ UNCHANGED <<vulnVars, aggVars>>

\* checkProject rejects: a database call throws at statement `at`, what
\* was written before it stays written, and the .catch of the caller
\* (lines 39-41, 45-47) logs the error
CheckRejects(c, at) ==
  /\ BagIn(c, inflight)
  /\ inflight' = inflight (-) SetToBag({c})
  /\ \/ /\ at = "updateProjectStatus"
        /\ c.pc = "fetch"
        /\ \E resp \in SpecResponses :
             uptime_checks' = [uptime_checks EXCEPT ![c.project.id] =
               logUptime(@, Probe(resp).isUp, Probe(resp).statusCode)]
        /\ UNCHANGED project_status
     \/ /\ at = "recordAlertSent"
        /\ c.pc = "sendAlert"
        /\ UNCHANGED <<uptime_checks, project_status>>
  /\ UNCHANGED <<client, projects, timers, intervals, alerts, statusChange,
                 lastFetch>>
  /\ UNCHANGED <<vulnVars, aggVars>>

\* commands.js handleAddProjectModal, lines 78-140
handleAddProjectModal(channelId, checkInterval, failureThreshold) ==
  /\ client # Null
  /\ checkInterval >= MIN_CHECK_INTERVAL
  /\ failureThreshold >= MIN_FAILURE_THRESHOLD
  /\ LET projectId == Len(projects) + 1
         row == createProject(projectId, channelId, failureThreshold,
                              checkInterval)
     IN /\ projects' = Append(projects, row)
        /\ project_status' = Append(project_status, InitialStatus)
        /\ uptime_checks' = Append(uptime_checks, <<>>)
        /\ alerts' = Append(alerts, <<>>)
        /\ statusChange' = Append(statusChange, Null)
        /\ lastFetch' = Append(lastFetch, NoFetch)
        /\ SetScheduler(scheduleProjectCheck(SchedulerState,
                                            ProjectObject(row)))
  /\ UNCHANGED client
  /\ UNCHANGED <<vulnVars, aggVars>>

\* commands.js handleDucktapeHereCommand, lines 144-171
handleDucktapeHereCommand(channelId) ==
  /\ client # Null
  /\ Len(getProjectsByGuild) # 0
  /\ projects' = [id \in DOMAIN projects |->
                    IF projects[id].is_active = 1
                      THEN setAlertChannel(projects, id, channelId)[id]
                      ELSE projects[id]]
  /\ UNCHANGED <<client, project_status, uptime_checks, timers, intervals,
                 inflight, alerts, statusChange, lastFetch>>
  /\ UNCHANGED <<vulnVars, aggVars>>

\* commands.js handleDucktapeHereSelect, lines 174-193, one selected id
handleDucktapeHereSelect(projectId, channelId) ==
  /\ client # Null
  /\ projectId \in DOMAIN projects
  /\ projects' = setAlertChannel(projects, projectId, channelId)
  /\ UNCHANGED <<client, project_status, uptime_checks, timers, intervals,
                 inflight, alerts, statusChange, lastFetch>>
  /\ UNCHANGED <<vulnVars, aggVars>>

\* commands.js handleRemoveProjectCommand, lines 331-358
handleRemoveProjectCommand(projectId) ==
  /\ client # Null
  /\ projectId \in DOMAIN projects
  /\ projects[projectId].is_active = 1
  /\ projects' = deleteProject(projects, projectId)
  /\ UNCHANGED <<client, project_status, uptime_checks, timers, intervals,
                 inflight, alerts, statusChange, lastFetch>>
  /\ UNCHANGED <<vulnVars, aggVars>>

startVulnScheduler ==
  /\ dailyTimer' = [kind |-> "timeout", due |-> next8AM(now)]
  /\ UNCHANGED <<vulnerabilities, ignored_cves, scans, scanLog, batches, now>>
  /\ UNCHANGED <<uptimeVars, aggVars>>

\* stopVulnScheduler: the pending timeout or interval is cleared
stopVulnScheduler ==
  /\ dailyTimer # NoTimer
  /\ dailyTimer' = NoTimer
  /\ UNCHANGED <<vulnerabilities, ignored_cves, scans, scanLog, batches, now>>
  /\ UNCHANGED <<uptimeVars, aggVars>>

\* time passes until the daily timer is due and its callback runs: the
\* timeout starts the first batch and arms the 24 hour interval, the
\* interval starts a batch
DailyTimerFires ==
  /\ dailyTimer # NoTimer
  /\ now' = dailyTimer.due
  /\ dailyTimer' = [kind |-> "interval", due |-> dailyTimer.due + DAY]
  /\ StartBatch("daily", dailyTimer.due)
  /\ UNCHANGED <<vulnerabilities, ignored_cves, scanLog>>
  /\ UNCHANGED <<uptimeVars, aggVars>>

\* /ducktape_scan_vulns: scanGuildProjectsNow is started and not awaited
handleScanVulnsCommand ==
  /\ Len(getProjectsByGuild) # 0
  /\ StartBatch("guild", now)
  /\ UNCHANGED <<vulnerabilities, ignored_cves, scanLog, dailyTimer, now>>
  /\ UNCHANGED <<uptimeVars, aggVars>>

\* the sleep between two projects of batch b ends: the next scan starts
BatchWakes(b) ==
  /\ b \in DOMAIN batches
  /\ batches[b].pc = "sleep"
  /\ CanScan
  /\ LET i == batches[b].i + 1
         project == batches[b].list[i]
     IN  /\ batches' = [batches EXCEPT
                          ![b] = [batches[b] EXCEPT
                                    !.i = i, !.pc = "check",
                                    !.attempted = Append(@, project.id)]]
         /\ scans' = scans (+) SetToBag({BatchScan(project, b)})
  /\ UNCHANGED <<vulnerabilities, ignored_cves, scanLog, dailyTimer, now>>
  /\ UNCHANGED <<uptimeVars, aggVars>>

\* triggerVulnCheck(projectId): the project row is read, inactive or not,
\* and checkProjectVulnerabilities starts on it
triggerVulnCheck(projectId) ==
  /\ projectId \in DOMAIN projects
  /\ CanScan
  /\ scans' = scans (+) SetToBag({NewScan(projects[projectId])})
  /\ UNCHANGED <<vulnerabilities, ignored_cves, scanLog>>
  /\ UNCHANGED batchVars
  /\ UNCHANGED <<uptimeVars, aggVars>>

\* (mutant) the diff reads every record of the project, resolved or not
ScanSettles_ReadsAllRecords(c, currentVulns) ==
  /\ c \in BagToSet(scans)
  /\ c.pc = "scanUrl"
  /\ LET storedCVEs == {r \in vulnerabilities :
                             r.project_id = c.project.id}
         ignoredCVEIds == getIgnoredCVEsForProject(ignored_cves, c.project.id)
         new == newVulns(currentVulns, storedCVEs, ignoredCVEIds)
         gone == resolvedCVEIds(currentVulns, storedCVEs)
         saved == IF new # {}
                    THEN saveCVEs(vulnerabilities, c.project.id, new,
                                  Len(scanLog) + 1)
                    ELSE vulnerabilities
         table == IF gone # {}
                    THEN markCVEsResolved(saved, c.project.id, gone)
                    ELSE saved
         entry == ScanEntry(c.project, currentVulns, storedCVEs,
                            ignoredCVEIds, table)
     IN  /\ vulnerabilities' = table
         /\ scanLog' = Append(scanLog, entry)
         /\ scans' = IF entry.alertSent
                       THEN (scans (-) SetToBag({c}))
                              (+) SetToBag({[c EXCEPT
                                               !.pc = "sendVulnAlert",
                                               !.entry = Len(scanLog) + 1]})
                       ELSE scans (-) SetToBag({c})
         /\ batches' = IF entry.alertSent
                         THEN batches
                         ELSE Tally(Resume(batches, c, "scanned"), c,
                                    ScanReturn(entry))
  /\ UNCHANGED <<ignored_cves, dailyTimer, now>>
  /\ UNCHANGED <<uptimeVars, aggVars>>

\* checkProjectVulnerabilities from the return of scanUrl to the call of
\* sendVulnAlert or to its own return: the store and the ignore list are
\* read, the diff is computed and persisted in one synchronous stretch
ScanSettles(c, currentVulns) ==
  /\ c \in BagToSet(scans)
  /\ c.pc = "scanUrl"
  /\ LET storedCVEs == getActiveCVEsForProject(vulnerabilities, c.project.id)
         ignoredCVEIds == getIgnoredCVEsForProject(ignored_cves, c.project.id)
         new == newVulns(currentVulns, storedCVEs, ignoredCVEIds)
         gone == resolvedCVEIds(currentVulns, storedCVEs)
         saved == IF new # {}
                    THEN saveCVEs(vulnerabilities, c.project.id, new,
                                  Len(scanLog) + 1)
                    ELSE vulnerabilities
         table == IF gone # {}
                    THEN markCVEsResolved(saved, c.project.id, gone)
                    ELSE saved
         entry == ScanEntry(c.project, currentVulns, storedCVEs,
                            ignoredCVEIds, table)
     IN  /\ vulnerabilities' = table
         /\ scanLog' = Append(scanLog, entry)
         /\ scans' = IF entry.alertSent
                       THEN (scans (-) SetToBag({c}))
                              (+) SetToBag({[c EXCEPT
                                               !.pc = "sendVulnAlert",
                                               !.entry = Len(scanLog) + 1]})
                       ELSE scans (-) SetToBag({c})
         /\ batches' = IF entry.alertSent
                         THEN batches
                         ELSE Tally(Resume(batches, c, "scanned"), c,
                                    ScanReturn(entry))
  /\ UNCHANGED <<ignored_cves, dailyTimer, now>>
  /\ UNCHANGED <<uptimeVars, aggVars>>

\* scanUrl resolves for a site whose technologies carry the findings site,
\* the database queries of the technologies in failed having failed
ScanReturns(c, site, failed) ==
  ScanSettles(c, scanUrl(site, failed))

\* scanUrl throws: checkProjectVulnerabilities returns null
ScanFails(c) ==
  /\ c \in BagToSet(scans)
  /\ c.pc = "scanUrl"
  /\ scans' = scans (-) SetToBag({c})
  /\ scanLog' = Append(scanLog, FailedEntry(c.project))
  /\ batches' = Tally(Resume(batches, c, "null"), c, NullReturn)
  /\ UNCHANGED <<vulnerabilities, ignored_cves, dailyTimer, now>>
  /\ UNCHANGED <<uptimeVars, aggVars>>

\* sendVulnAlert returns, the alert posted or not; nothing is written
VulnAlertSettles(c) ==
  /\ c \in BagToSet(scans)
  /\ c.pc = "sendVulnAlert"
  /\ scans' = scans (-) SetToBag({c})
  /\ batches' = Tally(Resume(batches, c, "scanned"), c,
                      ScanReturn(scanLog[c.entry]))
  /\ UNCHANGED <<vulnerabilities, ignored_cves, scanLog, dailyTimer, now>>
  /\ UNCHANGED <<uptimeVars, aggVars>>

handleIgnoreCVEsSelect(projectId, cveIds) ==
  /\ projectId \in DOMAIN projects
  /\ cveIds # {}
  /\ ignored_cves' = ignoreCVEs(ignored_cves, projectId, cveIds)
  /\ ignored_cves' # ignored_cves
  /\ UNCHANGED <<vulnerabilities, scans, scanLog>>
  /\ UNCHANGED batchVars
  /\ UNCHANGED <<uptimeVars, aggVars>>

\* generateUptimeContext for one project: the 15-minute timeline
generateUptimeContext ==
  /\ timeline' = bucketUptimeInto15MinIntervals(uptimeData, NumSlots,
                                                SlotWidth, WindowEnd)
  /\ timeline' # timeline
  /\ UNCHANGED <<uptimeData, graph>>
  /\ UNCHANGED <<uptimeVars, vulnVars>>

\* generateStatusImage for one project: the buckets and their colours
generateStatusImage ==
  /\ LET buckets == bucketUptimeData(uptimeData, WindowStart, WindowEnd,
                                     NumSlots, SlotWidth)
     IN  graph' = [k \in 1..NumSlots |->
                     [checks |-> buckets[k].checks,
                      upCount |-> buckets[k].upCount,
                      color |-> getSlotColor(buckets[k])]]
  /\ graph' # graph
  /\ UNCHANGED <<uptimeData, timeline>>
  /\ UNCHANGED <<uptimeVars, vulnVars>>

\* ------------------------------------------------------- specifications
\* Spec: the whole scheduler with its commands; a fetch here either
\* answers 200 or fails in transport (SpecResponses).
Next ==
  \/ CanStart(Len(getAllActiveProjects), MaxChecks) /\ ClientReady
  \/ CanStart(Len(getAllActiveProjects), MaxChecks) /\ startScheduler
  \/ stopScheduler
  \/ \E projectId \in 1..MaxProjects :
       CanStart(1, MaxChecks) /\ addProject(projectId)
  \/ \E i \in intervals : CanStart(1, MaxChecks) /\ Tick(i)
  \/ \E c \in BagToSet(inflight), resp \in SpecResponses :
       FetchSettles(c, resp)
  \/ \E c \in BagToSet(inflight), delivery \in Deliveries :
       SendAlertSettles(c, delivery)
  \/ \E channelId \in AddChannels, cfg \in Configs :
       /\ Len(projects) < MaxProjects
       /\ CanStart(1, MaxChecks)
       /\ handleAddProjectModal(channelId, cfg[2], cfg[1])
  \/ \E channelId \in HereChannels : handleDucktapeHereCommand(channelId)
  \/ \E projectId \in 1..MaxProjects, channelId \in HereChannels :
       handleDucktapeHereSelect(projectId, channelId)
  \/ \E projectId \in 1..MaxProjects : handleRemoveProjectCommand(projectId)

Spec == Init /\ [][Next]_vars

\* SpecTimers: the scheduler's entry points and its timers, with more
\* checks begun than Spec has and without the registry commands.
NextTimers ==
  \/ CanStart(Len(getAllActiveProjects), MaxStarts) /\ ClientReady
  \/ CanStart(Len(getAllActiveProjects), MaxStarts) /\ startScheduler
  \/ stopScheduler
  \/ \E projectId \in 1..MaxProjects :
       CanStart(1, MaxStarts) /\ addProject(projectId)
  \/ \E i \in intervals : CanStart(1, MaxStarts) /\ Tick(i)
  \/ \E c \in BagToSet(inflight), resp \in SpecResponses :
       FetchSettles(c, resp)
  \/ \E c \in BagToSet(inflight), delivery \in Deliveries :
       SendAlertSettles(c, delivery)
  \/ \E channelId \in AddChannels, cfg \in Configs :
       /\ Len(projects) < MaxProjects
       /\ CanStart(1, MaxStarts)
       /\ handleAddProjectModal(channelId, cfg[2], cfg[1])

SpecTimers == Init /\ [][NextTimers]_vars

\* SpecFaults: SpecTimers with database calls of a check that may throw.
NextFaults ==
  \/ NextTimers
  \/ \E c \in BagToSet(inflight), at \in ThrowPoints : CheckRejects(c, at)

SpecFaults == Init /\ [][NextFaults]_vars

\* SpecPolicy: one project found in the registry when the process starts,
\* with every threshold and interval, checked over longer runs.
InitPolicy ==
  /\ client = Null
  /\ \E channelId \in AddChannels, checkInterval \in Intervals,
        failureThreshold \in Thresholds :
       projects = <<createProject(1, channelId, failureThreshold,
                                  checkInterval)>>
  /\ project_status = <<InitialStatus>>
  /\ uptime_checks = << <<>> >>
  /\ timers = <<>>
  /\ intervals = {}
  /\ inflight = EmptyBag
  /\ InitVulnVars
  /\ alerts = << <<>> >>
  /\ statusChange = <<Null>>
  /\ lastFetch = <<NoFetch>>

\* the alert policy reads isUp only: one answer that is up, one that is down
PolicyResponses ==
  {r \in Responses : r.kind # "response" \/ r.status \in {HTTP_OK, 500}}

NextPolicy ==
  \/ CanStart(Len(getAllActiveProjects), MaxRun) /\ ClientReady
  \/ CanStart(Len(getAllActiveProjects), MaxRun) /\ startScheduler
  \/ stopScheduler
  \/ \E projectId \in DOMAIN projects :
       CanStart(1, MaxRun) /\ addProject(projectId)
  \/ \E i \in intervals : CanStart(1, MaxRun) /\ Tick(i)
  \/ \E c \in BagToSet(inflight), resp \in PolicyResponses :
       FetchSettles(c, resp)
  \/ \E c \in BagToSet(inflight), delivery \in Deliveries :
       SendAlertSettles(c, delivery)

SpecPolicy == InitPolicy /\ [][NextPolicy]_vars

\* SpecDelivery: one project checked by its timer, with no alert getting
\* through: the client is not ready, the channel is missing or the send
\* throws.
FailedDeliveries == Deliveries \ {"sent"}

NextDelivery ==
  \/ CanStart(Len(getAllActiveProjects), MaxRun) /\ ClientReady
  \/ \E i \in intervals : CanStart(1, MaxRun) /\ Tick(i)
  \/ \E c \in BagToSet(inflight), resp \in SpecResponses :
       FetchSettles(c, resp)
  \/ \E c \in BagToSet(inflight), delivery \in FailedDeliveries :
       SendAlertSettles(c, delivery)

SpecDelivery == InitPolicy /\ [][NextDelivery]_vars

\* SpecProbe: the same project checked by its timer only, its fetch
\* settling in every way.
NextProbe ==
  \/ CanStart(Len(getAllActiveProjects), MaxRun) /\ ClientReady
  \/ \E i \in intervals : CanStart(1, MaxRun) /\ Tick(i)
  \/ \E c \in BagToSet(inflight), resp \in Responses : FetchSettles(c, resp)
  \/ \E c \in BagToSet(inflight), delivery \in Deliveries :
       SendAlertSettles(c, delivery)

SpecProbe == InitPolicy /\ [][NextProbe]_vars

\* one project and its vulnerability scans, one after the other
InitVuln ==
  /\ client = Null
  /\ \E channelId \in AddChannels :
       projects = <<createProject(1, channelId, MIN_FAILURE_THRESHOLD,
                                  MIN_CHECK_INTERVAL)>>
  /\ project_status = <<InitialStatus>>
  /\ uptime_checks = << <<>> >>
  /\ timers = <<>>
  /\ intervals = {}
  /\ inflight = EmptyBag
  /\ alerts = << <<>> >>
  /\ statusChange = <<Null>>
  /\ lastFetch = <<NoFetch>>
  /\ InitVulnVars

NextVuln ==
  \/ \E projectId \in DOMAIN projects :
       scans = EmptyBag /\ triggerVulnCheck(projectId)
  \/ \E c \in BagToSet(scans), currentVulns \in ScanResults :
       ScanSettles(c, currentVulns)
  \/ \E c \in BagToSet(scans) : ScanFails(c)
  \/ \E c \in BagToSet(scans) : VulnAlertSettles(c)
  \/ \E projectId \in DOMAIN projects, cveIds \in IgnoreChoices :
       handleIgnoreCVEsSelect(projectId, cveIds)

SpecVuln == InitVuln /\ [][NextVuln]_vars

\* scans of one project at which two technologies carry the same CVE, with
\* a severity that differs between the two sources
DupFindings ==
  {[cve |-> 1, severity |-> "HIGH", technology |-> 1],
   [cve |-> 1, severity |-> "CRITICAL", technology |-> 2],
   [cve |-> 2, severity |-> "MEDIUM", technology |-> 2]}

NextDup ==
  \/ \E projectId \in DOMAIN projects :
       scans = EmptyBag /\ triggerVulnCheck(projectId)
  \/ \E c \in BagToSet(scans), currentVulns \in SUBSET DupFindings :
       ScanSettles(c, currentVulns)
  \/ \E c \in BagToSet(scans) : ScanFails(c)
  \/ \E c \in BagToSet(scans) : VulnAlertSettles(c)

SpecDup == InitVuln /\ [][NextDup]_vars

\* scans of one project that may be in flight together: each reports the
\* HIGH finding, the MEDIUM one, both or nothing
OverlapResults ==
  SUBSET {v \in VulnFindings : v.severity \in {"HIGH", "MEDIUM"}}

NextOverlap ==
  \/ \E projectId \in DOMAIN projects : triggerVulnCheck(projectId)
  \/ \E c \in BagToSet(scans), currentVulns \in OverlapResults :
       ScanSettles(c, currentVulns)
  \/ \E c \in BagToSet(scans) : ScanFails(c)
  \/ \E c \in BagToSet(scans) : VulnAlertSettles(c)

SpecOverlap == InitVuln /\ [][NextOverlap]_vars

\* one scan of a project whose store and ignore list are already filled
InitDiff ==
  /\ client = Null
  /\ \E channelId \in AddChannels :
       projects = <<createProject(1, channelId, MIN_FAILURE_THRESHOLD,
                                  MIN_CHECK_INTERVAL)>>
  /\ project_status = <<InitialStatus>>
  /\ uptime_checks = << <<>> >>
  /\ timers = <<>>
  /\ intervals = {}
  /\ inflight = EmptyBag
  /\ alerts = << <<>> >>
  /\ statusChange = <<Null>>
  /\ lastFetch = <<NoFetch>>
  /\ \E S \in OneEach(SeverityFindings) :
       vulnerabilities = saveCVEs({}, 1, S, 0)
  /\ \E ignoredCVEIds \in SUBSET DiffCVEs :
       ignored_cves = ignoreCVEs({}, 1, ignoredCVEIds)
  /\ scans = EmptyBag
  /\ scanLog = <<>>
  /\ batches = <<>>
  /\ InitAggVars
  /\ dailyTimer = NoTimer
  /\ now \in {0}

NextDiff ==
  \/ \E projectId \in DOMAIN projects :
       scanLog = <<>> /\ scans = EmptyBag /\ triggerVulnCheck(projectId)
  \/ \E c \in BagToSet(scans), currentVulns \in OneEach(SeverityFindings) :
       ScanSettles(c, currentVulns)
  \/ \E c \in BagToSet(scans) : VulnAlertSettles(c)

SpecDiff == InitDiff /\ [][NextDiff]_vars

\* scans of one project whose vulnerability source may fail
NextSource ==
  \/ \E projectId \in DOMAIN projects :
       scans = EmptyBag /\ triggerVulnCheck(projectId)
  \/ \E c \in BagToSet(scans), site \in ScanResults,
        failed \in SUBSET Technologies :
       ScanReturns(c, site, failed)
  \/ \E c \in BagToSet(scans) : ScanFails(c)
  \/ \E c \in BagToSet(scans) : VulnAlertSettles(c)

SpecSource == InitVuln /\ [][NextSource]_vars

\* two projects scanned in turn while CVEs are put on the ignore list of
\* one of them
InitIgnore ==
  /\ client = Null
  /\ \E channelId \in AddChannels :
       projects = <<createProject(1, channelId, MIN_FAILURE_THRESHOLD,
                                  MIN_CHECK_INTERVAL),
                    createProject(2, channelId, MIN_FAILURE_THRESHOLD,
                                  MIN_CHECK_INTERVAL)>>
  /\ project_status = <<InitialStatus, InitialStatus>>
  /\ uptime_checks = << <<>>, <<>> >>
  /\ timers = <<>>
  /\ intervals = {}
  /\ inflight = EmptyBag
  /\ alerts = << <<>>, <<>> >>
  /\ statusChange = <<Null, Null>>
  /\ lastFetch = <<NoFetch, NoFetch>>
  /\ InitVulnVars

IgnoreResults ==
  SUBSET {v \in VulnFindings : v.severity \in {"HIGH", "CRITICAL"}}

NextIgnore ==
  \/ \E projectId \in DOMAIN projects :
       scans = EmptyBag /\ triggerVulnCheck(projectId)
  \/ \E c \in BagToSet(scans), currentVulns \in IgnoreResults :
       ScanSettles(c, currentVulns)
  \/ \E c \in BagToSet(scans) : VulnAlertSettles(c)
  \/ \E projectId \in DOMAIN projects, cveIds \in IgnoreChoices :
       /\ \A i \in ignored_cves : i.project_id = projectId
       /\ handleIgnoreCVEsSelect(projectId, cveIds)

SpecIgnore == InitIgnore /\ [][NextIgnore]_vars

\* the daily batch and on-demand scans over two projects
BatchResults == {{}, {v \in VulnFindings : v.severity = "CRITICAL"}}

NextBatch ==
  \/ dailyTimer = NoTimer /\ startVulnScheduler
  \/ DailyTimerFires
  \/ handleScanVulnsCommand
  \/ \E b \in DOMAIN batches : BatchWakes(b)
  \/ \E projectId \in DOMAIN projects : triggerVulnCheck(projectId)
  \/ \E c \in BagToSet(scans), currentVulns \in BatchResults :
       ScanSettles(c, currentVulns)
  \/ \E c \in BagToSet(scans) : ScanFails(c)
  \/ \E c \in BagToSet(scans) : VulnAlertSettles(c)

SpecBatch == InitIgnore /\ [][NextBatch]_vars

\* the daily scheduler started and stopped, over two projects
NextStop ==
  \/ dailyTimer = NoTimer /\ startVulnScheduler
  \/ stopVulnScheduler
  \/ DailyTimerFires
  \/ \E b \in DOMAIN batches : BatchWakes(b)
  \/ \E c \in BagToSet(scans), currentVulns \in BatchResults :
       ScanSettles(c, currentVulns)
  \/ \E c \in BagToSet(scans) : ScanFails(c)
  \/ \E c \in BagToSet(scans) : VulnAlertSettles(c)

SpecStop == InitIgnore /\ [][NextStop]_vars

\* on-demand batches over two projects, with single scans before them;
\* a scan reports the HIGH finding or nothing, or fails
SummaryResults == SUBSET {v \in VulnFindings : v.severity = "HIGH"}

NextSummary ==
  \/ handleScanVulnsCommand
  \/ \E b \in DOMAIN batches : BatchWakes(b)
  \/ \E projectId \in DOMAIN projects :
       scans = EmptyBag /\ batches = <<>> /\ triggerVulnCheck(projectId)
  \/ \E c \in BagToSet(scans), currentVulns \in SummaryResults :
       ScanSettles(c, currentVulns)
  \/ \E c \in BagToSet(scans) : ScanFails(c)
  \/ \E c \in BagToSet(scans) : VulnAlertSettles(c)

SpecSummary == InitIgnore /\ [][NextSummary]_vars

\* the times of day, in minutes since a midnight, at which the scheduler may
\* be started: around midnight and 08:00, on the first and on a later day
StartMinutes == {0, 1, 479, 480, 481, 1439, 1440, 1919, 1920, 1921}

\* one project, the scheduler not yet started, at some time of day
InitDaily ==
  /\ client = Null
  /\ \E channelId \in AddChannels :
       projects = <<createProject(1, channelId, MIN_FAILURE_THRESHOLD,
                                  MIN_CHECK_INTERVAL)>>
  /\ project_status = <<InitialStatus>>
  /\ uptime_checks = << <<>> >>
  /\ timers = <<>>
  /\ intervals = {}
  /\ inflight = EmptyBag
  /\ alerts = << <<>> >>
  /\ statusChange = <<Null>>
  /\ lastFetch = <<NoFetch>>
  /\ vulnerabilities = {}
  /\ ignored_cves = {}
  /\ scans = EmptyBag
  /\ scanLog = <<>>
  /\ batches = <<>>
  /\ InitAggVars
  /\ dailyTimer = NoTimer
  /\ now \in StartMinutes

NextDaily ==
  \/ dailyTimer = NoTimer /\ startVulnScheduler
  \/ DailyTimerFires
  \/ \E c \in BagToSet(scans), currentVulns \in BatchResults :
       ScanSettles(c, currentVulns)
  \/ \E c \in BagToSet(scans) : ScanFails(c)
  \/ \E c \in BagToSet(scans) : VulnAlertSettles(c)

SpecDaily == InitDaily /\ [][NextDaily]_vars

\* check records of one project, at any times in and around the window
CheckRecords == [checked_at : CheckTimes, is_up : {0, 1}]

RECURSIVE SeqsUpTo(_, _)
SeqsUpTo(S, n) ==
  IF n = 0 THEN {<<>>}
  ELSE LET shorter == SeqsUpTo(S, n - 1)
       IN  shorter \cup {Append(q, x) : q \in shorter, x \in S}

\* the aggregators applied to up to MaxRecords records
InitBuckets ==
  /\ client = Null
  /\ \E channelId \in AddChannels :
       projects = <<createProject(1, channelId, MIN_FAILURE_THRESHOLD,
                                  MIN_CHECK_INTERVAL)>>
  /\ project_status = <<InitialStatus>>
  /\ uptime_checks = << <<>> >>
  /\ timers = <<>>
  /\ intervals = {}
  /\ inflight = EmptyBag
  /\ alerts = << <<>> >>
  /\ statusChange = <<Null>>
  /\ lastFetch = <<NoFetch>>
  /\ vulnerabilities = {}
  /\ ignored_cves = {}
  /\ scans = EmptyBag
  /\ scanLog = <<>>
  /\ batches = <<>>
  /\ dailyTimer = NoTimer
  /\ now = WindowEnd
  /\ uptimeData \in SeqsUpTo(CheckRecords, MaxRecords)
  /\ timeline = <<>>
  /\ graph = <<>>

NextBuckets ==
  \/ generateUptimeContext
  \/ generateStatusImage

SpecBuckets == InitBuckets /\ [][NextBuckets]_vars

\* n records at time t of which the first up are up
RecordsAt(t, n, up) ==
  [k \in 1..n |-> [checked_at |-> t, is_up |-> IF k <= up THEN 1 ELSE 0]]

\* the aggregators applied to up to MaxSlotChecks records in the first and
\* in the last bucket of the window
InitSlots ==
  /\ client = Null
  /\ \E channelId \in AddChannels :
       projects = <<createProject(1, channelId, MIN_FAILURE_THRESHOLD,
                                  MIN_CHECK_INTERVAL)>>
  /\ project_status = <<InitialStatus>>
  /\ uptime_checks = << <<>> >>
  /\ timers = <<>>
  /\ intervals = {}
  /\ inflight = EmptyBag
  /\ alerts = << <<>> >>
  /\ statusChange = <<Null>>
  /\ lastFetch = <<NoFetch>>
  /\ vulnerabilities = {}
  /\ ignored_cves = {}
  /\ scans = EmptyBag
  /\ scanLog = <<>>
  /\ batches = <<>>
  /\ dailyTimer = NoTimer
  /\ now = WindowEnd
  /\ \E n \in 0..MaxSlotChecks, m \in 0..MaxSlotChecks :
       \E up \in 0..n, ups \in 0..m :
         uptimeData = RecordsAt(WindowStart, n, up)
                        \o RecordsAt(WindowEnd - 1, m, ups)
  /\ timeline = <<>>
  /\ graph = <<>>

SpecSlots == InitSlots /\ [][NextBuckets]_vars

\* =================================================================== claims
\* the length of the run of failed checks that ends at record n of a log
RECURSIVE RunAt(_, _)
RunAt(log, n) ==
  IF n = 0 \/ log[n].is_up = 1 THEN 0 ELSE 1 + RunAt(log, n - 1)

\* the sendAlert calls made by the check that wrote record n of project id
AlertsAt(id, n) == {k \in DOMAIN alerts[id] : alerts[id][k].check = n}

\* the failure counts at which a project is to alert: the threshold T and,
\* when floor(1800 / I) > 0, T + floor(1800 / I)
DownCounts(row) ==
  {row.failure_threshold} \cup
    (IF 1800 \div row.check_interval_sec > 0
       THEN {row.failure_threshold + 1800 \div row.check_interval_sec}
       ELSE {})

\* C1: after every sequence of recorded check outcomes the stored
\* consecutive_failures, and the consecutiveFailures that the last
\* updateProjectStatus returned, equal the length of the trailing run of
\* failed checks: 0 after a success, one more after each failure.
C1_TrailingRun ==
  \A id \in DOMAIN projects :
    LET log == uptime_checks[id]
    IN /\ project_status[id].consecutive_failures = RunAt(log, Len(log))
       /\ log # <<>> =>
            statusChange[id].consecutiveFailures = RunAt(log, Len(log))

\* C1 witness: a run of two failures was counted after an earlier failure
\* had been reset by a success
C1_Witness ==
  \E id \in DOMAIN projects :
    LET log == uptime_checks[id]
    IN /\ Len(log) >= 4
       /\ log[Len(log) - 3].is_up = 0
       /\ log[Len(log) - 2].is_up = 1
       /\ project_status[id].consecutive_failures = 2

\* C2: a check emits a DOWN alert exactly when it failed and brought the
\* failure run to T or (when floor(1800/I) > 0) to T + floor(1800/I); it
\* then emits one alert only, carrying that count.
C2_DownAtCrossings ==
  \A id \in DOMAIN projects :
    \A n \in DOMAIN uptime_checks[id] :
      LET log == uptime_checks[id]
          crossing == log[n].is_up = 0
                        /\ RunAt(log, n) \in DownCounts(projects[id])
      IN /\ Cardinality(AlertsAt(id, n)) <= 1
         /\ crossing <=>
              \E k \in AlertsAt(id, n) : alerts[id][k].status = "DOWN"
         /\ \A k \in AlertsAt(id, n) :
              alerts[id][k].status = "DOWN" =>
                alerts[id][k].consecutiveFailures = RunAt(log, n)

\* C2 witness: one run alerted at T and again at T + floor(1800/I), two
\* failures later, with a failure in between that did not alert
C2_Witness ==
  \E id \in DOMAIN projects :
    /\ Len(alerts[id]) = 2
    /\ alerts[id][1].status = "DOWN"
    /\ alerts[id][2].status = "DOWN"
    /\ alerts[id][2].check = alerts[id][1].check + 2
    /\ project_status[id].consecutive_failures
         = projects[id].failure_threshold + 2

\* C3: a RECOVERED alert comes only from a successful check whose previous
\* status was down with at least T consecutive failures, and a failure run
\* that a success ended below T left no alert at all.
C3_RecoveredOnlyAfterThreshold ==
  \A id \in DOMAIN projects :
    LET log == uptime_checks[id]
        T == projects[id].failure_threshold
    IN /\ \A k \in DOMAIN alerts[id] :
            alerts[id][k].status = "RECOVERED" =>
              LET n == alerts[id][k].check
              IN /\ n \in 2..Len(log)
                 /\ log[n].is_up = 1
                 /\ log[n - 1].is_up = 0
                 /\ RunAt(log, n - 1) >= T
       /\ \A n \in 2..Len(log) :
            (log[n].is_up = 1 /\ RunAt(log, n - 1) \in 1..(T - 1)) =>
              \A m \in (n - RunAt(log, n - 1))..n : AlertsAt(id, m) = {}

\* C3 witness: a run below the threshold healed silently, and a later run
\* that reached the threshold was followed by RECOVERED
C3_Witness ==
  \E id \in DOMAIN projects :
    LET log == uptime_checks[id]
    IN /\ \E n \in 2..Len(log) :
            /\ log[n].is_up = 1
            /\ RunAt(log, n - 1) \in 1..(projects[id].failure_threshold - 1)
       /\ \E k \in DOMAIN alerts[id] : alerts[id][k].status = "RECOVERED"

\* C4: the first successful check after a failure run that reached T emits
\* RECOVERED, once; a successful check that follows a success emits nothing.
C4_RecoveredOnce ==
  \A id \in DOMAIN projects :
    \A n \in DOMAIN uptime_checks[id] :
      LET log == uptime_checks[id]
          T == projects[id].failure_threshold
      IN log[n].is_up = 1 =>
           IF n > 1 /\ RunAt(log, n - 1) >= T
             THEN /\ Cardinality(AlertsAt(id, n)) = 1
                  /\ \A k \in AlertsAt(id, n) :
                       alerts[id][k].status = "RECOVERED"
             ELSE AlertsAt(id, n) = {}

\* C4 witness: RECOVERED was emitted and the next check succeeded too
C4_Witness ==
  \E id \in DOMAIN projects :
    \E k \in DOMAIN alerts[id] :
      /\ alerts[id][k].status = "RECOVERED"
      /\ alerts[id][k].check < Len(uptime_checks[id])
      /\ uptime_checks[id][alerts[id][k].check + 1].is_up = 1

\* C10: the record of a probe is up iff the fetch was answered with status
\* exactly 200; any other answer is down with its status code stored, and
\* a transport error or a timeout is down with no status code (NULL).
C10_UpIffStatus200 ==
  \A id \in DOMAIN projects :
    lastFetch[id].kind # "none" =>
      LET resp == lastFetch[id]
          rec == uptime_checks[id][Len(uptime_checks[id])]
          row == project_status[id]
          answered == resp.kind = "response"
      IN /\ rec.is_up = 1 <=> (answered /\ resp.status = 200)
         /\ rec.is_up \in {0, 1}
         /\ answered => rec.status_code = resp.status /\ rec.status_code # Null
         /\ ~answered => rec.is_up = 0 /\ rec.status_code = Null
         /\ row.is_up = rec.is_up
         /\ row.last_status_code = rec.status_code
         /\ statusChange[id].isNowUp = (rec.is_up = 1)

\* C10 witness: one project was probed with a 200, with another 2xx
\* answer, with a 5xx answer and without an answer
C10_Witness ==
  \E id \in DOMAIN projects :
    LET log == uptime_checks[id]
    IN /\ \E n \in DOMAIN log : log[n].is_up = 1
       /\ \E n \in DOMAIN log : log[n].is_up = 0 /\ log[n].status_code = 204
       /\ \E n \in DOMAIN log : log[n].is_up = 0 /\ log[n].status_code = 500
       /\ lastFetch[id].kind = "timeout"
       /\ log[Len(log)].status_code = Null

\* C5: once a project is marked inactive its timer starts no check of it
\* any more, hence no CheckRecord and no alert come from such a check
\* (steps that leave the timer table alone: no scheduling call is made).
C5_NoCheckAfterRemoval ==
  [][\A id \in DOMAIN projects :
       (projects[id].is_active = 0 /\ timers' = timers)
         => Fetching(inflight', id) <= Fetching(inflight, id)]_vars

\* C6: no check of a project begins while another check of it is in
\* flight (steps that leave the timer table alone: a timer tick, not a
\* scheduling call).
C6_NoOverlap ==
  [][\A id \in DOMAIN projects :
       (ChecksOf(inflight, id) >= 1 /\ timers' = timers)
         => ChecksOf(inflight', id) <= ChecksOf(inflight, id)]_vars

\* C7: when stopScheduler has emptied the timer table no recurring timer
\* is alive, and while the table stays empty no check begins: checks in
\* flight may finish, none starts.
C7_NoCheckAfterStop ==
  [][/\ DOMAIN timers' = {} => intervals' = {}
     /\ (DOMAIN timers = {} /\ DOMAIN timers' = {}) =>
          \A id \in DOMAIN projects :
            Fetching(inflight', id) <= Fetching(inflight, id)]_vars

\* C7 witness: the scheduler was stopped while a check was in flight
C7_Witness ==
  /\ client # Null
  /\ DOMAIN timers = {}
  /\ intervals = {}
  /\ BagCardinality(inflight) > 0

LiveTimersOf(live, id) == {i \in live : i.project.id = id}

\* C8: every project id has at most one live recurring timer, the one the
\* timer table holds for it; a step that arms a timer for a project leaves
\* that project with the new timer only (its previous one is cancelled) and
\* with one more check begun, and leaves the timers of the projects it does
\* not arm as they were.
C8_OneTimerPerProject ==
  [][/\ \A id \in DOMAIN projects' :
          /\ Cardinality(LiveTimersOf(intervals', id)) <= 1
          /\ \A i \in LiveTimersOf(intervals', id) :
               id \in DOMAIN timers' /\ timers'[id] = i.handle
          /\ id \in DOMAIN timers' =>
               \E i \in LiveTimersOf(intervals', id) :
                 i.handle = timers'[id]
     /\ \A id \in DOMAIN timers' :
          IF id \in DOMAIN timers /\ timers'[id] = timers[id]
            THEN LiveTimersOf(intervals', id) = LiveTimersOf(intervals, id)
            ELSE Fetching(inflight', id) = Fetching(inflight, id) + 1]_vars

\* C8 witness: a project was scheduled while every project, itself
\* included, held a timer (only then is a handle beyond the number of
\* projects handed out), its immediate check is in flight, and another
\* project still holds the timer it was given at startup
C8_Witness ==
  \E id, other \in DOMAIN timers :
    /\ id # other
    /\ timers[id] > Len(projects)
    /\ timers[other] = other
    /\ Cardinality(LiveTimersOf(intervals, id)) = 1
    /\ Cardinality(LiveTimersOf(intervals, other)) = 1
    /\ ChecksOf(inflight, id) >= 1

\* C9: every alert goes to the channel that the registry named for the
\* project when the check that emits it began.
C9_AlertsFollowRegistry ==
  \A id \in DOMAIN projects :
    \A k \in DOMAIN alerts[id] :
      alerts[id][k].channelId = alerts[id][k].registryChannel

\* C11: whatever checks of other projects are pending (at their fetch or
\* at their alert delivery), the tick of a live timer starts its project's
\* check, and a pending fetch of any project can settle.
C11_TicksIndependent ==
  /\ \A i \in intervals :
       Fetching(inflight, i.project.id) = 0 => ENABLED Tick(i)
  /\ \A c \in BagToSet(inflight) :
       c.pc = "fetch" =>
         \A resp \in SpecResponses : ENABLED FetchSettles(c, resp)

\* C11 witness: the first check of one project is still waiting for its
\* alert to be delivered while another project has completed two checks
C11_Witness ==
  \E a, b \in DOMAIN projects :
    /\ a # b
    /\ Len(uptime_checks[a]) = 1
    /\ \E c \in BagToSet(inflight) :
         c.project.id = a /\ c.pc = "sendAlert"
    /\ Len(uptime_checks[b]) >= 2
    /\ \E i \in intervals : i.project.id = b

\* C12: a step in which a check settles, fails to deliver its alert or
\* rejects leaves the timer table and every live timer as they are, and
\* every live timer, also of a project all of whose checks failed, starts
\* a check when it ticks.
C12_FailureKeepsTimers ==
  [][/\ (inflight' # inflight
          /\ BagCardinality(inflight') <= BagCardinality(inflight))
         => (timers' = timers /\ intervals' = intervals)
     /\ \A i \in intervals :
          Fetching(inflight, i.project.id) = 0 => ENABLED Tick(i)]_vars

\* C12 witness: a project none of whose checks succeeded, one of them
\* rejected after it had logged its record and one called sendAlert, still
\* has its timer, and a check begun by a later tick is pending
C12_Witness ==
  \E id \in DOMAIN timers :
    /\ Len(uptime_checks[id]) >= 2
    /\ \A n \in DOMAIN uptime_checks[id] : uptime_checks[id][n].is_up = 0
    /\ Len(uptime_checks[id]) > project_status[id].last_checked_at
    /\ alerts[id] # <<>>
    /\ Cardinality(LiveTimersOf(intervals, id)) = 1
    /\ Fetching(inflight, id) = 1

\* two sendAlert calls of a project with the same status and failure count
\* are separated by a check of the opposite outcome: they belong to
\* different crossings
OneAttemptPerCrossing(calls, log) ==
  \A k, l \in DOMAIN calls :
    (/\ k < l
     /\ calls[k].status = calls[l].status
     /\ calls[k].consecutiveFailures = calls[l].consecutiveFailures)
      => \E n \in (calls[k].check + 1)..(calls[l].check - 1) :
           log[n].is_up = (IF calls[k].status = "DOWN" THEN 1 ELSE 0)

\* C13: when sendAlert returns without having delivered (client not ready,
\* channel missing, send error) the step leaves the StatusRecord fields
\* the check wrote, the check history and the alert calls as they are and
\* ends the check: nothing is sent again; and a later check calls
\* sendAlert only for another crossing.
C13_NoRetryNoRollback ==
  [][/\ \A c \in BagToSet(inflight), delivery \in FailedDeliveries :
          (c.pc = "sendAlert" /\ SendAlertSettles(c, delivery)) =>
            LET id == c.project.id
            IN /\ project_status'[id].is_up = project_status[id].is_up
               /\ project_status'[id].consecutive_failures
                    = project_status[id].consecutive_failures
               /\ project_status'[id].last_status_code
                    = project_status[id].last_status_code
               /\ project_status'[id].last_checked_at
                    = project_status[id].last_checked_at
               /\ uptime_checks' = uptime_checks
               /\ alerts' = alerts
               /\ ChecksOf(inflight', id) = ChecksOf(inflight, id) - 1
     /\ \A id \in DOMAIN alerts' :
          OneAttemptPerCrossing(alerts'[id], uptime_checks'[id])]_vars

\* C13 witness: the DOWN alert of a crossing returned undelivered, the
\* next check failed as well and called nothing, and the failure count
\* went on from where the alerting check left it
C13_Witness ==
  \E id \in DOMAIN projects :
    /\ Len(alerts[id]) = 1
    /\ alerts[id][1].status = "DOWN"
    /\ project_status[id].last_alert_sent_at # Null
    /\ ChecksOf(inflight, id) = 0
    /\ Len(uptime_checks[id]) > alerts[id][1].check
    /\ project_status[id].consecutive_failures
         = projects[id].failure_threshold + 1

\* a step in which a scan reached its diff
Diffed ==
  /\ Len(scanLog') = Len(scanLog) + 1
  /\ ~scanLog'[Len(scanLog')].failed

\* C14: a successful scan leaves as the project's active CVE ids exactly the
\* ids the scan reported: every reported CVE that was not active gets a new
\* active record, every active record whose CVE was not reported is marked
\* resolved and stays in the table, and every other record is left as it was.
C14_ActiveSetIsScan ==
  [][Diffed =>
       LET e == scanLog'[Len(scanLog')]
           before == getActiveCVEsForProject(vulnerabilities, e.project)
           after == getActiveCVEsForProject(vulnerabilities', e.project)
           reported == currentCVEIds(e.current)
       IN  /\ storedCVEIds(after) = reported
           /\ \A id \in reported \ storedCVEIds(before) :
                Cardinality({r \in after \ vulnerabilities :
                               r.cve_id = id}) = 1
           /\ \A r \in before :
                IF r.cve_id \in reported
                  THEN r \in after
                  ELSE /\ r \notin vulnerabilities'
                       /\ [r EXCEPT !.resolved = 1] \in vulnerabilities'
           /\ \A r \in vulnerabilities \ before : r \in vulnerabilities'
           /\ Cardinality(vulnerabilities') =
                Cardinality(vulnerabilities)
                  + Cardinality(reported \ storedCVEIds(before))]_vars

C14_Witness ==
  \E k \in DOMAIN scanLog :
    /\ ~scanLog[k].failed
    /\ scanLog[k].new # {}
    /\ scanLog[k].resolvedIds # {}
    /\ storedCVEIds(scanLog[k].stored) \cap currentCVEIds(scanLog[k].current)
         # {}
    /\ \E r \in vulnerabilities : r.resolved = 1 /\ r.first_seen < k

AlertingSeverities == {"HIGH", "CRITICAL"}

\* C15: a scan that reached its diff sends an alert exactly when it reports a
\* HIGH finding that is neither active nor ignored, or any CRITICAL finding
\* that is not ignored, or when an active record of severity HIGH or CRITICAL
\* was not reported again; new or resolved findings of severity LOW, MEDIUM
\* or UNKNOWN never cause an alert by themselves.
C15_AlertIffAlertable ==
  \A k \in DOMAIN scanLog :
    LET e == scanLog[k]
        active == {r.cve_id : r \in e.stored}
        reported == {v.cve : v \in e.current}
        unknownHigh == {v \in e.current : /\ v.severity = "HIGH"
                                          /\ v.cve \notin active
                                          /\ v.cve \notin e.ignored}
        critical == {v \in e.current : /\ v.severity = "CRITICAL"
                                       /\ v.cve \notin e.ignored}
        goneHighPlus == {r \in e.stored :
                           /\ r.cve_id \notin reported
                           /\ r.severity \in AlertingSeverities}
        changed == {v.severity : v \in {w \in e.current : w.cve \notin active}}
                     \cup {r.severity :
                             r \in {t \in e.stored : t.cve_id \notin reported}}
    IN  ~e.failed =>
          /\ e.alertSent <=>
               (unknownHigh # {} \/ critical # {} \/ goneHighPlus # {})
          /\ e.alertSent <=>
               (e.newHigh # {} \/ e.allCritical # {} \/ e.resolved # {})
          /\ (changed \cap AlertingSeverities = {} /\ critical = {})
               => ~e.alertSent

C15_Witness ==
  \E k \in DOMAIN scanLog :
    /\ ~scanLog[k].failed
    /\ ~scanLog[k].alertSent
    /\ \E v \in scanLog[k].current :
         v.severity \in {"LOW", "UNKNOWN"}
           /\ v.cve \notin storedCVEIds(scanLog[k].stored)
    /\ \E r \in scanLog[k].stored :
         r.severity = "MEDIUM"
           /\ r.cve_id \notin currentCVEIds(scanLog[k].current)

\* scan l is the first scan of the same project that reached its diff after
\* scan k did
NextScanOf(k, l) ==
  /\ k < l
  /\ scanLog[k].project = scanLog[l].project
  /\ ~scanLog[k].failed /\ ~scanLog[l].failed
  /\ \A m \in (k + 1)..(l - 1) :
       scanLog[m].project = scanLog[k].project => scanLog[m].failed

FirstScan(l) ==
  /\ ~scanLog[l].failed
  /\ \A m \in 1..(l - 1) :
       scanLog[m].project = scanLog[l].project => scanLog[m].failed

\* C16: every scan that reports a CRITICAL CVE which is not ignored sends an
\* alert; a HIGH CVE which is not ignored is alerted as new exactly by the
\* scan that reports it when the scan before did not, and a scan that
\* reports the same HIGH findings as the scan before, and nothing else,
\* sends no alert.
C16_CriticalAlwaysHighOnce ==
  \A l \in DOMAIN scanLog :
    LET e == scanLog[l]
        high == {v \in e.current :
                   v.severity = "HIGH" /\ v.cve \notin e.ignored}
    IN  /\ ~e.failed =>
             \A v \in e.current :
               (v.severity = "CRITICAL" /\ v.cve \notin e.ignored)
                 => e.alertSent
        /\ FirstScan(l) => (e.newHigh = high /\ (high # {} => e.alertSent))
        /\ \A k \in DOMAIN scanLog :
             NextScanOf(k, l) =>
               LET before == {v.cve : v \in scanLog[k].current}
               IN  /\ \A v \in high : v \in e.newHigh <=> v.cve \notin before
                   /\ (\E v \in high : v.cve \notin before) => e.alertSent
                   /\ ( /\ e.current = scanLog[k].current
                        /\ \A v \in e.current : v.severity = "HIGH" )
                        => ~e.alertSent

C16_Witness ==
  \E k, l \in DOMAIN scanLog :
    /\ NextScanOf(k, l)
    /\ scanLog[k].alertSent /\ scanLog[l].alertSent
    /\ scanLog[k].ignored = {} /\ scanLog[l].ignored = {}
    /\ scanLog[k].newHigh # {}
    /\ scanLog[l].current = scanLog[k].current
    /\ scanLog[l].newHigh = {} /\ scanLog[l].newCritical = {}
    /\ scanLog[l].resolved = {}
    /\ scanLog[l].allCritical # {}

\* C17: when a scan reports the same findings as the scan before it of the
\* same project, it inserts nothing and resolves nothing, the active records
\* after it are the active records after the scan before, and it sends an
\* alert exactly when it reports a CRITICAL CVE that is not ignored.
C17_DiffIdempotent ==
  \A k, l \in DOMAIN scanLog :
    (NextScanOf(k, l) /\ scanLog[l].current = scanLog[k].current) =>
      LET e == scanLog[l]
      IN  /\ e.new = {} /\ e.resolvedIds = {}
          /\ getActiveCVEsForProject(e.table, e.project)
               = getActiveCVEsForProject(scanLog[k].table, e.project)
          /\ e.table = scanLog[k].table
          /\ e.alertSent <=>
               \E v \in e.current :
                 v.severity = "CRITICAL" /\ v.cve \notin e.ignored

C17_Witness ==
  \E k, l \in DOMAIN scanLog :
    /\ NextScanOf(k, l)
    /\ scanLog[l].current = scanLog[k].current
    /\ \E v \in scanLog[l].current : v.severity = "HIGH"
    /\ \E v \in scanLog[l].current :
         v.severity = "CRITICAL" /\ v.cve \in scanLog[l].ignored
    /\ scanLog[k].alertSent /\ ~scanLog[l].alertSent
    /\ getActiveCVEsForProject(scanLog[l].table, scanLog[l].project) # {}

\* scans l..m of the project of scan l never report the CVE
StaysAbsent(cve, l, m) ==
  \A j \in l..m :
    (scanLog[j].project = scanLog[l].project /\ ~scanLog[j].failed)
      => cve \notin currentCVEIds(scanLog[j].current)

\* C18: a CVE reported by one scan and not by the next scan of the project
\* that reaches its diff is marked resolved by that scan; if its record had
\* severity HIGH or CRITICAL the record is in resolvedHighPlus of that scan,
\* and it is in resolvedHighPlus of no later scan while it stays absent.
C18_ResolvedOnce ==
  \A k, l \in DOMAIN scanLog :
    NextScanOf(k, l) =>
      \A cve \in currentCVEIds(scanLog[k].current)
                   \ currentCVEIds(scanLog[l].current) :
        LET e == scanLog[l]
            rows == {r \in e.table :
                       r.project_id = e.project /\ r.cve_id = cve}
        IN  /\ cve \in e.resolvedIds
            /\ rows # {}
            /\ \A r \in rows : r.resolved = 1
            /\ \A r \in e.stored :
                 (r.cve_id = cve /\ r.severity \in AlertingSeverities)
                   => (r \in e.resolved /\ e.alertSent)
            /\ \E r \in e.stored : r.cve_id = cve
            /\ \A m \in (l + 1)..Len(scanLog) :
                 ( /\ scanLog[m].project = e.project
                   /\ StaysAbsent(cve, l, m) )
                   => cve \notin storedCVEIds(scanLog[m].resolved)

C18_Witness ==
  \E k, l, m \in DOMAIN scanLog :
    /\ NextScanOf(k, l) /\ NextScanOf(l, m)
    /\ \E v \in scanLog[k].current :
         /\ v.severity = "HIGH"
         /\ StaysAbsent(v.cve, l, m)
         /\ v.cve \in storedCVEIds(scanLog[l].resolved)
         /\ v.cve \notin scanLog[l].ignored
    /\ scanLog[l].alertSent
    /\ ~scanLog[m].alertSent

\* C19: no alert subset of a scan holds a CVE that was on the project's
\* ignore list when the scan read it (newHigh, newCritical, allCritical and
\* resolvedHighPlus alike), and a scan sends an alert only if it has an
\* alert-worthy item that is not ignored.
C19_IgnoredNeverAlerts ==
  \A k \in DOMAIN scanLog :
    LET e == scanLog[k]
        listed == currentCVEIds(e.newHigh) \cup currentCVEIds(e.newCritical)
                    \cup currentCVEIds(e.allCritical)
                    \cup storedCVEIds(e.resolved)
    IN  ~e.failed =>
          /\ listed \cap e.ignored = {}
          /\ e.alertSent => listed \ e.ignored # {}

\* C20: putting a CVE on a project's ignore list writes nothing but ignore
\* entries; no step removes a vulnerability record; a scan inserts every
\* reported CVE that is not active and resolves every active CVE that is
\* not reported, ignored or not; and a scan touches no record of another
\* project and decides its alert from its own project's ignore list only.
C20_IgnoreOnlyAlerting ==
  [][/\ ignored_cves' # ignored_cves =>
          /\ ignored_cves \subseteq ignored_cves'
          /\ vulnerabilities' = vulnerabilities
          /\ scanLog' = scanLog
     /\ \A r \in vulnerabilities :
          r \in vulnerabilities' \/ [r EXCEPT !.resolved = 1] \in vulnerabilities'
     /\ Diffed =>
          LET e == scanLog'[Len(scanLog')]
              before == getActiveCVEsForProject(vulnerabilities, e.project)
              after == getActiveCVEsForProject(vulnerabilities', e.project)
              reported == currentCVEIds(e.current)
              own == {i.cve_id :
                        i \in {j \in ignored_cves : j.project_id = e.project}}
          IN  /\ storedCVEIds(after) = reported
              /\ e.new = reported \ storedCVEIds(before)
              /\ e.resolvedIds = storedCVEIds(before) \ reported
              /\ \A r \in vulnerabilities \cup vulnerabilities' :
                   r.project_id # e.project
                     => (r \in vulnerabilities /\ r \in vulnerabilities')
              /\ e.alertSent <=>
                   \/ \E v \in e.current :
                        /\ v.cve \notin own
                        /\ \/ v.severity = "CRITICAL"
                           \/ /\ v.severity = "HIGH"
                              /\ v.cve \notin storedCVEIds(before)
                   \/ \E r \in before :
                        /\ r.cve_id \notin reported
                        /\ r.severity \in AlertingSeverities]_vars

C20_Witness ==
  \E k, l, m \in DOMAIN scanLog :
    /\ NextScanOf(k, l)
    /\ scanLog[m].project # scanLog[k].project
    /\ \E cve \in scanLog[k].ignored :
         /\ cve \in scanLog[k].new
         /\ cve \in scanLog[l].resolvedIds
         /\ \E r \in vulnerabilities :
              /\ r.project_id = scanLog[k].project
              /\ r.cve_id = cve /\ r.resolved = 1
         /\ cve \in currentCVEIds(scanLog[m].newHigh)
    /\ scanLog[m].ignored = {}
    /\ scanLog[m].alertSent
    /\ ~scanLog[k].alertSent

\* C21: a scan in which the fingerprint or a vulnerability-database query
\* failed writes no vulnerability record and sends no alert.
C21_FailedScanAbandoned ==
  [][\A c \in BagToSet(scans) :
       /\ ScanFails(c) =>
            (vulnerabilities' = vulnerabilities /\ scans' = scans (-) SetToBag({c}))
       /\ \A site \in ScanResults, failed \in SUBSET Technologies :
            (failed # {} /\ ScanReturns(c, site, failed)) =>
              /\ vulnerabilities' = vulnerabilities
              /\ ~scanLog'[Len(scanLog')].alertSent]_vars

\* the ids of the projects in a batch's list, in list order
ListIds(b) == [k \in 1..Len(b.list) |-> b.list[k].id]

\* C22: a batch calls checkProjectVulnerabilities on the projects of its
\* list in list order, once each, and goes on after a scan that failed: the
\* projects attempted so far are a prefix of the list, every attempt but a
\* pending one has returned, and a batch that is done has attempted its
\* whole list.
C22_BatchAttemptsAll ==
  \A n \in DOMAIN batches :
    LET b == batches[n]
        pending == {c \in BagToSet(scans) : c.batch = n}
    IN  /\ b.attempted = SubSeq(ListIds(b), 1, b.i)
        /\ b.i <= Len(b.list)
        /\ Len(b.results) = IF b.pc = "check" THEN b.i - 1 ELSE b.i
        /\ b.pc = "check" <=> pending # {}
        /\ \A c \in pending : scans[c] = 1 /\ c.project = b.list[b.i]
        /\ Cardinality(pending) <= 1
        /\ b.pc = "sleep" => b.i < Len(b.list)
        /\ b.pc = "done" => b.attempted = ListIds(b)

C22_Witness ==
  \E n \in DOMAIN batches :
    /\ batches[n].pc = "done"
    /\ Len(batches[n].list) >= 2
    /\ batches[n].results[1] = "null"
    /\ batches[n].attempted = ListIds(batches[n])
    /\ \E k \in DOMAIN scanLog :
         scanLog[k].project = batches[n].list[2].id /\ ~scanLog[k].failed

\* C23: at any time at most one scan is querying the vulnerability source,
\* whichever entry point started it.
C23_ScansSerialized ==
  LET running == {c \in BagToSet(scans) : c.pc = "scanUrl"}
  IN  BagCardinality([c \in running |-> scans[c]]) <= 1

RECURSIVE SumChecks(_)
SumChecks(buckets) ==
  IF buckets = <<>> THEN 0
  ELSE Head(buckets).checks + SumChecks(Tail(buckets))

\* the records with a timestamp in [WindowStart, WindowEnd)
InWindow == {k \in DOMAIN uptimeData :
               /\ uptimeData[k].checked_at >= WindowStart
               /\ uptimeData[k].checked_at < WindowEnd}

\* every in-window record is counted in the bucket whose index is the floor
\* of its offset over the bucket width, and no other record is counted
BucketsMatch(buckets) ==
  /\ Len(buckets) = NumSlots
  /\ \A slot \in 1..NumSlots :
       LET mine == {k \in InWindow :
                      \E r \in 0..(SlotWidth - 1) :
                        uptimeData[k].checked_at
                          = WindowStart + (slot - 1) * SlotWidth + r}
       IN  /\ buckets[slot].checks = Cardinality(mine)
           /\ buckets[slot].upCount
                = Cardinality({k \in mine : uptimeData[k].is_up = 1})
           /\ buckets[slot].upCount <= buckets[slot].checks
  /\ SumChecks(buckets) = Cardinality(InWindow)

\* C25: both aggregators count every record with a timestamp in
\* [windowStart, windowEnd) in exactly one bucket, the one of index
\* floor((t - windowStart) / bucketWidth), and count no other record: the
\* checks of all buckets add up to the number of in-window records and no
\* bucket has more up records than records.
C25_BucketsPartitionWindow ==
  /\ graph # <<>> => BucketsMatch(graph)
  /\ timeline # <<>> => BucketsMatch(timeline)

C25_Witness ==
  /\ graph # <<>> /\ timeline # <<>>
  /\ InWindow # {}
  /\ \E k \in DOMAIN uptimeData : uptimeData[k].checked_at = WindowEnd
  /\ \E k \in DOMAIN uptimeData :
       uptimeData[k].checked_at = WindowEnd - 1 /\ uptimeData[k].is_up = 1
  /\ graph[NumSlots].checks = 1 /\ graph[NumSlots].upCount = 1
  /\ SumChecks(timeline) = 1

\* the four-way classification of a bucket
Classification(bucket) ==
  IF bucket.checks = 0 THEN "NO_DATA"
  ELSE IF bucket.upCount = bucket.checks THEN "UP"
  ELSE IF 2 * bucket.upCount >= bucket.checks THEN "PARTIAL"
  ELSE "DOWN"

\* C26 as stated: the state of every bucket of the 15-minute timeline is
\* the four-way classification of the bucket, and the colours of the status
\* graph stand for the four classes: two slots have the same colour exactly
\* when their buckets are in the same class.
C26_FourWayBoth ==
  /\ \A k \in DOMAIN timeline :
       timeline[k].state = Classification(timeline[k])
  /\ \A j, k \in DOMAIN graph :
       graph[j].color = graph[k].color
         <=> Classification(graph[j]) = Classification(graph[k])

\* C26 amended: the 15-minute timeline follows the four-way classification;
\* the status graph colours an empty slot noData, a slot whose records are
\* all up upBright, a slot with at least four fifths but not all up "up", a
\* slot with at least half but less than four fifths up partial, a slot
\* with some but less than half up down, and a slot with none up
\* downBright. A window without records gives NO_DATA and noData
\* everywhere, and a populated bucket whose records are all up is UP and
\* upBright.
C26_Classification ==
  /\ \A k \in DOMAIN timeline :
       timeline[k].state = Classification(timeline[k])
  /\ \A k \in DOMAIN graph :
       LET n == graph[k].checks
           up == graph[k].upCount
           color == graph[k].color
       IN  /\ color = "noData" <=> n = 0
           /\ color = "upBright" <=> (n > 0 /\ up = n)
           /\ color = "up" <=> (up < n /\ 5 * up >= 4 * n)
           /\ color = "partial" <=> (5 * up < 4 * n /\ 2 * up >= n)
           /\ color = "down" <=> (2 * up < n /\ up > 0)
           /\ color = "downBright" <=> (n > 0 /\ up = 0)
  /\ uptimeData = <<>> =>
       /\ \A k \in DOMAIN timeline : timeline[k].state = "NO_DATA"
       /\ \A k \in DOMAIN graph : graph[k].color = "noData"
  /\ (\A j \in DOMAIN uptimeData : uptimeData[j].is_up = 1) =>
       /\ \A k \in DOMAIN timeline :
            timeline[k].checks > 0 => timeline[k].state = "UP"
       /\ \A k \in DOMAIN graph :
            graph[k].checks > 0 => graph[k].color = "upBright"

C26_Witness ==
  \E j, k \in DOMAIN graph :
    /\ j \in DOMAIN timeline /\ k \in DOMAIN timeline
    /\ graph[k].checks = MaxSlotChecks
    /\ 5 * graph[k].upCount >= 4 * graph[k].checks
    /\ graph[k].upCount < graph[k].checks
    /\ graph[k].color = "up"
    /\ timeline[k].state = "PARTIAL"
    /\ graph[j].color = "partial"
    /\ timeline[j].state = "PARTIAL"

\* C27: removing a project removes its history: right after
\* handleRemoveProjectCommand (deleteProject) no CheckRecord of the project
\* remains and its StatusRecord holds nothing a check has written; and no
\* other step deletes or changes a CheckRecord (the log of a project only
\* grows at its end).
C27_RemoveDeletesHistory ==
  [][\A id \in DOMAIN projects :
       /\ handleRemoveProjectCommand(id) =>
            /\ uptime_checks'[id] = <<>>
            /\ project_status'[id] = InitialStatus
       /\ ~handleRemoveProjectCommand(id) =>
            /\ Len(uptime_checks'[id]) >= Len(uptime_checks[id])
            /\ SubSeq(uptime_checks'[id], 1, Len(uptime_checks[id]))
                 = uptime_checks[id]]_vars

C29_AtomicReadModifyWrite ==
  [][\A id \in DOMAIN projects :
       uptime_checks'[id] # uptime_checks[id] =>
         LET log == uptime_checks'[id]
             isUp == log[Len(log)].is_up = 1
             previousStatus == project_status[id]
             kind == AlertPolicy(projects[id], isUp, statusChange'[id],
                                 previousStatus)
         IN  /\ Len(log) = Len(uptime_checks[id]) + 1
             /\ project_status'[id].consecutive_failures
                  = IF isUp THEN 0
                            ELSE previousStatus.consecutive_failures + 1
             /\ project_status'[id].consecutive_failures
                  = RunAt(log, Len(log))
             /\ statusChange'[id].wasUp = (previousStatus.is_up = 1)
             /\ statusChange'[id].consecutiveFailures
                  = project_status'[id].consecutive_failures
             /\ IF kind = "NONE"
                  THEN alerts'[id] = alerts[id]
                  ELSE /\ Len(alerts'[id]) = Len(alerts[id]) + 1
                       /\ alerts'[id][Len(alerts'[id])].status = kind
                       /\ alerts'[id][Len(alerts'[id])].check = Len(log)]_vars

\* two checks of one project were in flight together and both failed: the
\* first is still waiting for its alert to be delivered, a second fetch of
\* the project has settled since, and the count is two
C29_Witness ==
  \E id \in DOMAIN projects :
    /\ Len(uptime_checks[id]) = 2
    /\ uptime_checks[id][1].is_up = 0
    /\ uptime_checks[id][2].is_up = 0
    /\ project_status[id].consecutive_failures = 2
    /\ \E c \in BagToSet(inflight) :
         /\ c.project.id = id
         /\ c.pc = "sendAlert"
         /\ alerts[id][c.alert].check = 1

\* C30 as stated: the CheckRecord of a check is appended after the status
\* update and the alert emission of that check: a project has no more
\* records than status updates, and while the alert of a check is being
\* delivered the record of that check is not in the log yet.
C30_RecordAppendedLast ==
  \A id \in DOMAIN projects :
    /\ Len(uptime_checks[id]) <= project_status[id].last_checked_at
    /\ \A c \in BagToSet(inflight) :
         (c.project.id = id /\ c.pc = "sendAlert") =>
           alerts[id][c.alert].check > Len(uptime_checks[id])

\* C30 amended: a check appends its CheckRecord first, then updates the
\* status row, then decides on and emits its alert, then records that the
\* alert was sent.  Counting per project: alert stamps <= alert calls <=
\* status updates <= records, and the record a pending alert belongs to is
\* in the log already.
C30_RecordAppendedFirst ==
  \A id \in DOMAIN projects :
    /\ project_status[id].last_alert_sent_at <= Len(alerts[id])
    /\ Len(alerts[id]) <= project_status[id].last_checked_at
    /\ project_status[id].last_checked_at <= Len(uptime_checks[id])
    /\ \A k \in DOMAIN alerts[id] :
         alerts[id][k].check <= Len(uptime_checks[id])

\* the first check of a project was logged and its status update threw;
\* the second was logged, updated the status and waits for its alert
C30_Witness ==
  \E id \in DOMAIN projects :
    /\ Len(uptime_checks[id]) = 2
    /\ project_status[id].last_checked_at = 1
    /\ project_status[id].last_alert_sent_at = 0
    /\ \E c \in BagToSet(inflight) :
         /\ c.project.id = id
         /\ c.pc = "sendAlert"
         /\ alerts[id][c.alert].check = 2

\* C31: every probe execution appends exactly one CheckRecord that carries
\* the probe's up/down flag and status code, whatever the outcome (up,
\* non-200, transport error, timeout): a step in which a fetch of a project
\* settles adds one record with the flag and the code of what the fetch
\* settled with, no other step adds a record, and no step, the return of a
\* failed alert delivery included, takes a record away or changes one.
C31_OneRecordPerProbe ==
  [][\A id \in DOMAIN projects :
       LET log == uptime_checks[id]
           settled == Fetching(inflight, id) - Fetching(inflight', id)
       IN  /\ SubSeq(uptime_checks'[id], 1, Len(log)) = log
           /\ Len(uptime_checks'[id]) - Len(log)
                = (IF settled = 1 THEN 1 ELSE 0)
           /\ settled = 1 =>
                LET rec == uptime_checks'[id][Len(log) + 1]
                    resp == lastFetch'[id]
                IN  /\ resp.kind # "none"
                    /\ rec.is_up = (IF resp.kind = "response"
                                       /\ resp.status = 200 THEN 1 ELSE 0)
                    /\ rec.status_code = (IF resp.kind = "response"
                                            THEN resp.status ELSE Null)]_vars

\* a project was probed with every outcome, one record each, and the
\* alert of its last check has returned
C31_Witness ==
  \E id \in DOMAIN projects :
    LET log == uptime_checks[id]
    IN  /\ Len(log) = 4
        /\ project_status[id].last_checked_at = 4
        /\ log[1].is_up = 1
        /\ log[2].is_up = 0 /\ log[2].status_code = 500
        /\ log[3].is_up = 0 /\ lastFetch[id].kind = "timeout"
        /\ log[4].status_code = Null
        /\ ChecksOf(inflight, id) = 0
        /\ \E k \in DOMAIN alerts[id] : alerts[id][k].check = 4
        /\ project_status[id].last_alert_sent_at # Null

\* C32: updateProjectStatus returns wasUp equal to the is_up flag stored
\* before the call, isNowUp equal to the outcome of this check and
\* consecutiveFailures equal to the count it stored, so the returned value
\* alone tells a down-to-up transition of the stored flag.
C32_StatusChangeReturned ==
  [][\A id \in DOMAIN projects :
       project_status'[id].last_checked_at
           # project_status[id].last_checked_at =>
         LET before == project_status[id]
             after == project_status'[id]
             log == uptime_checks'[id]
             ret == statusChange'[id]
         IN  /\ ret.wasUp = (before.is_up = 1)
             /\ ret.isNowUp = (log[Len(log)].is_up = 1)
             /\ ret.isNowUp = (after.is_up = 1)
             /\ ret.consecutiveFailures = after.consecutive_failures
             /\ (~ret.wasUp /\ ret.isNowUp)
                  <=> (before.is_up = 0 /\ after.is_up = 1)]_vars

\* the last call returned a down-to-up transition after two failures
C32_Witness ==
  \E id \in DOMAIN projects :
    LET log == uptime_checks[id]
    IN  /\ Len(log) >= 3
        /\ log[Len(log) - 2].is_up = 0
        /\ log[Len(log) - 1].is_up = 0
        /\ log[Len(log)].is_up = 1
        /\ statusChange[id] = [wasUp |-> FALSE, isNowUp |-> TRUE,
                               consecutiveFailures |-> 0]
        /\ project_status[id].last_checked_at = Len(log)

\* the checks of a project that wait for their sendAlert call to return
AwaitingAlert(bag, id) == ChecksOf(bag, id) - Fetching(bag, id)

\* C33: last_alert_sent_at of a project is written by a check iff the
\* policy decision of that check is DOWN or RECOVERED: a check calls
\* sendAlert exactly when its decision is one of the two, and the stamp is
\* written once for every such call that has returned, delivered or not.
\* The step that records a check (updateProjectStatus) leaves
\* last_alert_sent_at alone, and the step that stamps (recordAlertSent)
\* leaves every other field of the row alone.
C33_AlertStampIffDecision ==
  [][\A id \in DOMAIN projects :
       LET before == project_status[id]
           after == project_status'[id]
           recorded == after.last_checked_at # before.last_checked_at
           stamped == after.last_alert_sent_at # before.last_alert_sent_at
       IN  /\ recorded =>
                LET log == uptime_checks'[id]
                    kind == AlertPolicy(projects[id],
                                        log[Len(log)].is_up = 1,
                                        statusChange'[id], before)
                IN  /\ ~stamped
                    /\ kind \in {"DOWN", "RECOVERED"}
                         <=> Len(alerts'[id]) = Len(alerts[id]) + 1
                    /\ kind = "NONE" <=> alerts'[id] = alerts[id]
                    /\ kind # "NONE" =>
                         alerts'[id][Len(alerts'[id])].status = kind
           /\ ~recorded => alerts'[id] = alerts[id]
           /\ stamped =>
                /\ after = [before EXCEPT
                              !.last_alert_sent_at = after.last_alert_sent_at]
                /\ after.last_alert_sent_at = before.last_alert_sent_at + 1
                /\ AwaitingAlert(inflight', id)
                     = AwaitingAlert(inflight, id) - 1
           /\ after.last_alert_sent_at + AwaitingAlert(inflight', id)
                = Len(alerts'[id])]_vars

\* a DOWN and a RECOVERED alert were decided and stamped, and the checks
\* between them and after them stamped nothing
C33_Witness ==
  \E id \in DOMAIN projects :
    /\ Len(alerts[id]) = 2
    /\ alerts[id][1].status = "DOWN"
    /\ alerts[id][2].status = "RECOVERED"
    /\ project_status[id].last_alert_sent_at = 2
    /\ Len(uptime_checks[id]) = 5
    /\ ChecksOf(inflight, id) = 0

\* C34: in a batch over n projects a sleep, of 30 s in the daily batch and
\* of 5 s in the on-demand batch, separates the return of each project's
\* scan from the start of the next one, and none follows the last project:
\* a scan that returns is followed by a sleep iff projects remain, a sleep
\* is followed by the scan of the next project, and a finished batch has
\* made n scans and n - 1 sleeps.
C34_ScansAndSleepsAlternate ==
  [][\A n \in DOMAIN batches' :
       LET b == batches'[n]
           size == Len(b.list)
       IN  /\ Len(b.slept) = (IF b.pc = "sleep" THEN b.i
                               ELSE IF b.i = 0 THEN 0 ELSE b.i - 1)
           /\ \A k \in DOMAIN b.slept :
                b.slept[k] = (IF b.kind = "daily" THEN 30000 ELSE 5000)
           /\ (b.pc = "done" /\ size > 0) =>
                /\ Len(b.attempted) = size
                /\ Len(b.results) = size
                /\ Len(b.slept) = size - 1
           /\ (n \in DOMAIN batches /\ batches[n] # b) =>
                LET a == batches[n]
                IN  \/ /\ a.pc = "check"
                       /\ b.i = a.i
                       /\ Len(b.results) = Len(a.results) + 1
                       /\ b.pc = (IF a.i < size THEN "sleep" ELSE "done")
                    \/ /\ a.pc = "sleep"
                       /\ b.pc = "check"
                       /\ b.i = a.i + 1
                       /\ b.results = a.results]_vars

\* a daily batch over two projects is finished after one sleep of 30 s
\* and an on-demand batch sleeps 5 s after its first project
C34_Witness ==
  \E m, n \in DOMAIN batches :
    /\ batches[m].kind = "daily"
    /\ batches[m].pc = "done"
    /\ Len(batches[m].list) = 2
    /\ Len(batches[m].results) = 2
    /\ batches[m].slept = <<30000>>
    /\ batches[n].kind = "guild"
    /\ batches[n].pc = "sleep"
    /\ batches[n].slept = <<5000>>

\* C35: after any sequence of checks the status row of a project is up
\* iff its failure count is zero: the row is down from the first failed
\* check on, also below the failure threshold.
C35_UpIffNoFailures ==
  \A id \in DOMAIN projects :
    /\ project_status[id].is_up \in {0, 1}
    /\ project_status[id].consecutive_failures >= 0
    /\ project_status[id].is_up = 1
         <=> project_status[id].consecutive_failures = 0

\* a project with threshold two is down after one failed check that
\* followed a success, and no alert was decided for it
C35_Witness ==
  \E id \in DOMAIN projects :
    /\ projects[id].failure_threshold = 2
    /\ Len(uptime_checks[id]) = 2
    /\ uptime_checks[id][1].is_up = 1
    /\ uptime_checks[id][2].is_up = 0
    /\ project_status[id].consecutive_failures = 1
    /\ project_status[id].is_up = 0
    /\ alerts[id] = <<>>

\* C36: when scans of one project are in flight together, the read of the
\* active records, the diff and the writes of each scan happen without
\* the other scan in between: a CVE that one scan classified as new is
\* classified as new by a later diff only after a diff in between marked
\* it resolved, so it is inserted once, has one active record, and its
\* new-HIGH alert is sent once.
C36_NewOncePerAppearance ==
  /\ \A k, l \in DOMAIN scanLog :
       (k < l /\ scanLog[k].project = scanLog[l].project) =>
         \A id \in scanLog[k].new \cap scanLog[l].new :
           \E m \in (k + 1)..(l - 1) :
             /\ scanLog[m].project = scanLog[k].project
             /\ id \in scanLog[m].resolvedIds
  /\ \A k \in DOMAIN scanLog :
       /\ {v.cve : v \in scanLog[k].newHigh} \subseteq scanLog[k].new
       /\ scanLog[k].new \cap storedCVEIds(scanLog[k].stored) = {}
  /\ \A a, b \in vulnerabilities :
       (/\ a.project_id = b.project_id /\ a.cve_id = b.cve_id
        /\ a.resolved = 0 /\ b.resolved = 0) => a.first_seen = b.first_seen

\* the first scan found the HIGH CVE new and still waits for its alert to
\* be posted; a second scan of the project, in flight with it, reported
\* the CVE too and found nothing new
C36_Witness ==
  /\ Len(scanLog) = 2
  /\ scanLog[1].new = {1}
  /\ {v.cve : v \in scanLog[1].newHigh} = {1}
  /\ scanLog[1].alertSent
  /\ 1 \in currentCVEIds(scanLog[2].current)
  /\ scanLog[2].new = {}
  /\ ~scanLog[2].alertSent
  /\ \E c \in BagToSet(scans) : c.pc = "sendVulnAlert"
  /\ BagCardinality(scans) = 1

\* C37: scanGuildProjectsNow posts the All Clear message only if every
\* project of its list was scanned successfully and no scan of the batch
\* reported a HIGH or CRITICAL finding that is not ignored; and a batch
\* that has finished has posted either All Clear or the summary.
C37_AllClearOnlyIfClean ==
  \A n \in DOMAIN batches :
    LET b == batches[n]
    IN  /\ (b.kind = "guild" /\ b.pc = "done")
             => b.message \in {"allClear", "summary"}
        /\ b.message = "allClear" =>
             /\ \A k \in DOMAIN b.results : b.results[k] # "null"
             /\ b.highPlus = 0

\* C38: after stopVulnScheduler has returned (and until the scheduler is
\* started again) the daily scheduler starts no scan: no daily batch
\* begins and no daily batch goes on to its next project.
C38_NoScanAfterStop ==
  [][dailyTimer = NoTimer =>
       /\ Len(batches') = Len(batches)
       /\ \A n \in DOMAIN batches :
            batches[n].kind = "daily" =>
              batches'[n].attempted = batches[n].attempted]_vars

\* the DOWN alerts of a project that were decided when its count of
\* consecutive failures reached failure_threshold
FirstThresholdAlerts(id) ==
  {a \in DOMAIN alerts[id] :
     /\ alerts[id][a].status = "DOWN"
     /\ alerts[id][a].consecutiveFailures = projects[id].failure_threshold}

ObservedAgain(cve, l, m) ==
  /\ l < m
  /\ scanLog[l].project = scanLog[m].project
  /\ ~scanLog[l].failed /\ ~scanLog[m].failed
  /\ cve \in scanLog[l].resolvedIds
  /\ cve \in currentCVEIds(scanLog[m].current)
  /\ StaysAbsent(cve, l, m - 1)

\* C40: a CVE that a scan marked resolved and that a later scan of the
\* project reports again is new in that scan: no active record of it is
\* read, an active record is saved next to the resolved one, and a finding
\* of it that is HIGH or CRITICAL and not ignored is in newHigh or
\* newCritical and an alert is sent.
C40_ResolvedThenNewAgain ==
  \A l, m \in DOMAIN scanLog :
    \A v \in scanLog[m].current :
      ObservedAgain(v.cve, l, m) =>
        LET e == scanLog[m]
            rows == {r \in e.table :
                       r.project_id = e.project /\ r.cve_id = v.cve}
        IN  /\ v.cve \notin storedCVEIds(e.stored)
            /\ v.cve \in e.new
            /\ \E r \in rows : r.resolved = 0 /\ r.first_seen = m
            /\ \E r \in rows : r.resolved = 1 /\ r.first_seen < m
            /\ (v.severity = "HIGH" /\ v.cve \notin e.ignored)
                 => (v \in e.newHigh /\ e.alertSent)
            /\ (v.severity = "CRITICAL" /\ v.cve \notin e.ignored)
                 => (v \in e.newCritical /\ e.alertSent)

\* a HIGH finding was saved, was marked resolved by the next scan, and is
\* reported again by the third, which alerts for it alone
C40_Witness ==
  \E l, m \in DOMAIN scanLog :
    \E v \in scanLog[m].current :
      /\ ObservedAgain(v.cve, l, m)
      /\ v.severity = "HIGH"
      /\ scanLog[m].newHigh = {v}
      /\ scanLog[m].allCritical = {}
      /\ scanLog[m].resolved = {}
      /\ scanLog[m].alertSent

====
